---------------------------- MODULE Spec2Model ----------------------------
(***************************************************************************)
(* Quiz-chain orchestrator of the LLM analysis quiz solver.                *)
(*                                                                         *)
(* The model follows solve_quiz_chain (main.py) from one suspension point  *)
(* to the next: the outer question loop, the inner retry loop, the call of *)
(* AdvancedQuizSolver.solve_quiz, the interpretation of its result, the    *)
(* manual-answer prompt, the manual submission and the final cleanup.      *)
(* The collaborators (page fetch, model backend, code runner, scoring      *)
(* server, operator) are nondeterministic inputs.                          *)
(*                                                                         *)
(* Beside the chain stand the POST / handler that starts it (SpecHttp) and *)
(* the parts the chain relies on, each under a specification of its own:   *)
(* submit_answer (SpecSubmit), the payload url extraction (SpecExtract),   *)
(* the strategy selector (SpecStrategy), the code runner (SpecExec), chain *)
(* runs side by side with their solvers and scratch directories            *)
(* (SpecRuns), the files of a question as the prompt names them and as the *)
(* runner writes them (SpecFiles), the choice of a decoder for a download  *)
(* (SpecDownload), the reading of an answer out of a completion            *)
(* (SpecAnswer), a csv record written and read again (SpecCsv), the files  *)
(* of a question as solve_quiz gathers them (SpecBatch) and as the runner  *)
(* writes them together (SpecSave), the tasks on the one event loop        *)
(* (SpecLoop), and the chain under fair scheduling (SpecLive).             *)
(***************************************************************************)
EXTENDS Integers, Sequences, FiniteSets, TLC

(***************************************************************************)
(* Values                                                                  *)
(***************************************************************************)
\* Python's None and the empty string: both are falsy in `if x:`.
NULL == "null"
EMPTY == ""

\* The question URLs the scoring server may name.
Urls == {"q1", "q2", "q3"}

\* Anything a `url` field or variable may hold.
UrlValues == Urls \cup {NULL, EMPTY}

\* Program constants of solve_quiz_chain and submit_answer.
QUESTION_TIMEOUT == 160
MAX_RETRIES_PER_QUESTION == 2
RETRY_DELAY == 2
HTTP_OK == 200
TIMEOUT_SECONDS == 180

\* Bounds of the model.
MaxQuestions == 2
NonOkStatus == 500
DurFast == 30
DurMid == 90
DurSlow == 170

\* Wall-clock durations one solve_quiz call may take.
AttemptDurations == {DurFast, DurMid, DurSlow}

\* Python truthiness of a url value (`if result.get("url")`, `while current_url`).
Truthy(u) == u # NULL /\ u # EMPTY

VARIABLES
  pc,               \* position of the solve_quiz_chain coroutine
  current_url,      \* main.py:130
  question_number,  \* main.py:131
  clock,            \* time.time() measured from question_start_time (main.py:142)
  retry_count,      \* main.py:143
  question_solved,  \* main.py:144
  last_next_url,    \* main.py:145
  force_code,       \* main.py:149
  result,           \* main.py:159, the dict solve_quiz returned
  elapsed,          \* main.py:161
  manual_answer,    \* main.py:213
  manual_quiz_url,  \* main.py:213
  manual_result,    \* main.py:220
  http_open,        \* solver.http_client / llm_client.http_client not yet closed
  temp_dir_exists,  \* CodeExecutor.temp_dir exists on disk
  attempt_history,  \* solver.attempt_history: the 'attempts' count of each url recorded
  exit_reason,      \* which terminal log line the run has written
  \* history of the current question iteration (observations, not program state)
  q_url,            \* current_url when the iteration started
  q_number,         \* question_number when the iteration started
  attempts_made,    \* solve_quiz calls made in this iteration
  url_log,          \* the url of each solve_quiz result of this iteration, in order
  prompts,          \* manual prompts shown in this iteration
  manual_submits,   \* manual submissions made in this iteration
  typed_url,        \* what the operator typed at the url prompt
  payload_url,      \* the url argument of the manual submit_answer call
  outcome,          \* "none" | "solved" | "unsolved": how the iteration ended
  skip_target,      \* remembered next-URL usable for a skip when it ended unsolved
  \* the POST / handler (main.py:30-79)
  request,          \* the POST / request being handled
  response,         \* the HTTP response handle_quiz produced
  runs_started,     \* asyncio.create_task(solve_quiz_chain(...)) calls made
  \* one call of a function studied on its own
  call,             \* the function called and its arguments
  returned,         \* what the call returned
  \* one CodeExecutor.execute_code call (code_executor.py:22-53)
  exec_pc,          \* position of the execute_code coroutine
  script,           \* what the user code does when it is run
  proc,             \* the child process of _run_script
  exec_result,      \* the tuple execute_code returned
  \* the scratch directories of the code executors
  scratch,          \* the directories that exist, each a path of names
  runs,             \* the solve_quiz_chain tasks of one process
  solvers           \* the AdvancedQuizSolver objects constructed so far

vars == <<pc, current_url, question_number, clock, retry_count, question_solved,
          last_next_url, force_code, result, elapsed, manual_answer,
          manual_quiz_url, manual_result, http_open, temp_dir_exists, attempt_history,
          exit_reason, q_url, q_number, attempts_made, url_log, prompts, manual_submits,
          typed_url, payload_url, outcome, skip_target,
          request, response, runs_started, call, returned,
          exec_pc, script, proc, exec_result,
          scratch, runs, solvers>>

progVars == <<current_url, question_number, clock, retry_count, question_solved,
              last_next_url, force_code, result, elapsed, manual_answer,
              manual_quiz_url, manual_result>>

resVars == <<http_open, temp_dir_exists, attempt_history>>

histVars == <<q_url, q_number, attempts_made, url_log, prompts, manual_submits,
              typed_url, payload_url, outcome, skip_target>>

httpVars == <<request, response, runs_started>>

fnVars == <<call, returned>>

execVars == <<exec_pc, script, proc, exec_result>>

runVars == <<runs, solvers>>

fsVars == <<scratch, runVars>>

\* Everything that is not state of solve_quiz_chain.
sideVars == <<httpVars, fnVars, execVars, fsVars>>

\* No request received, no response sent, no function called.
NoRequest == [kind |-> "none", email |-> NULL, secret |-> NULL, url |-> NULL]
NoResponse == [status |-> 0, detail |-> "none", url |-> NULL]
NoCall == [fn |-> "none"]
NoReturn == [fn |-> "none"]

\* No code is being executed.
UNBOUND == "<unbound>"
NONE == "None"
NoScript == [raises |-> "none", answer |-> UNBOUND, result |-> UNBOUND,
             input_file |-> EMPTY, created_file |-> EMPTY, prints |-> "nothing",
             runtime |-> 0]
NoProcess == [state |-> "none", returncode |-> 0, marker |-> FALSE,
              well_formed |-> FALSE,
              has_result |-> FALSE, result |-> NONE, output_file |-> EMPTY,
              stderr |-> EMPTY]
NoExecResult == [success |-> FALSE, value |-> NONE,
                 error |-> [kind |-> "none", stderr |-> EMPTY]]
NoExecution ==
  /\ exec_pc = "idle"
  /\ script = NoScript
  /\ proc = NoProcess
  /\ exec_result = NoExecResult

\* No task, no solver and no directory.
NoRuns == <<>>
NoSolvers == <<>>
NoScratch ==
  /\ scratch = {}
  /\ runs = NoRuns
  /\ solvers = NoSolvers

\* The remembered next-URL lnu if it names a question other than cur, else NULL.
OtherQuestion(lnu, cur) == IF lnu # NULL /\ lnu # EMPTY /\ lnu # cur THEN lnu ELSE NULL

(***************************************************************************)
(* AdvancedQuizSolver.submit_answer and solve_quiz                         *)
(***************************************************************************)
\* What the scoring server (or the transport) answers to one POST.
\* raised stands for an exception raised by http_client.post.
Responses(urls) ==
  [raised : {FALSE}, status : {HTTP_OK, NonOkStatus}, correct : BOOLEAN, url : urls]
    \cup {[raised |-> TRUE, status |-> NonOkStatus, correct |-> FALSE, url |-> NULL]}

\* The next-URLs the server may name for question number n: the chain it
\* serves has at most MaxQuestions questions.
ServerUrls(n) == IF n < MaxQuestions THEN UrlValues ELSE {NULL, EMPTY}

\* What one solve_quiz call did: the collaborators it called, in order
\* (calls), whether the strategy selector (selector) or the forced code
\* generation (codegen) was among them, how execute_code ended (executed) and
\* what solve_with_context gave (direct).
Did(calls, executed, direct) ==
  [calls |-> calls,
   selector |-> \E i \in 1..Len(calls) : calls[i] = "get_solution_strategy",
   codegen |-> \E i \in 1..Len(calls) : calls[i] = "generate_code_solution",
   executed |-> executed, direct |-> direct]

\* A result dict that carries no "url" key: result.get("url") is None.
Failure(reason, m) ==
  [correct |-> FALSE, url |-> NULL, reason |-> reason,
   selector |-> m.selector, codegen |-> m.codegen, executed |-> m.executed,
   direct |-> m.direct, calls |-> m.calls, submitted |-> FALSE]

\* submit_answer: only a 200 response passes correct and url through.
submit_answer(resp) ==
  IF resp.raised
    THEN [correct |-> FALSE, url |-> NULL, reason |-> "exception"]
    ELSE IF resp.status = HTTP_OK
      THEN [correct |-> resp.correct, url |-> resp.url, reason |-> "server"]
      ELSE [correct |-> FALSE, url |-> NULL, reason |-> "http"]

\* advanced_quiz_solver.py:173-188: the answer is not None and is submitted;
\* the result of submit_answer is the result of the attempt.
Submitted(resp, m) ==
  LET r == submit_answer(resp) IN
  [correct |-> r.correct, url |-> r.url, reason |-> r.reason,
   selector |-> m.selector, codegen |-> m.codegen, executed |-> m.executed,
   direct |-> m.direct, calls |-> Append(m.calls, "submit_answer"),
   submitted |-> TRUE]

\* The collaborator outcomes of one solve_quiz call.
Envs ==
  [fetch_ok : BOOLEAN, strategy : {"direct", "code_execution"}, code_ok : BOOLEAN,
   exec_ok : BOOLEAN, direct_ok : BOOLEAN]

\* An execution failure that ends the attempt in either mode.
AfterExecFailure_Return(force) == "return"

\* advanced_quiz_solver.py:122-124 and 153-162: after execute_code has
\* failed, the forced mode returns a failure dict, the automatic mode falls
\* back to solve_with_context.
AfterExecFailure(force) == IF force THEN "return" ELSE "fallback"

\* A submission made whatever the answer is.
AnswerIsNone_Never(direct) == FALSE

\* advanced_quiz_solver.py:173-175: `if answer is None`, for the answer that
\* solve_with_context gave.
AnswerIsNone(direct) == direct = "null"

\* solve_quiz(quiz_url, force_code_execution): the result dict, with what the
\* call did.
solve_quiz(force, env, resp) ==
  LET first == IF force THEN "generate_code_solution" ELSE "get_solution_strategy"
      has_code == IF force THEN env.code_ok
                  ELSE env.strategy = "code_execution" /\ env.code_ok
      direct == IF env.direct_ok THEN "ok" ELSE "null"
  IN
  IF ~env.fetch_ok
    THEN Failure("Failed to fetch quiz page", Did(<<"fetch_quiz_page">>, "none", "none"))
  ELSE IF force /\ ~has_code
    THEN Failure("Failed to generate code",
                 Did(<<"fetch_quiz_page", first>>, "none", "none"))
  ELSE IF has_code /\ env.exec_ok
    THEN Submitted(resp, Did(<<"fetch_quiz_page", first, "execute_code">>, "ok", "none"))
  ELSE IF has_code /\ AfterExecFailure(force) = "return"
    THEN Failure("Code execution failed",
                 Did(<<"fetch_quiz_page", first, "execute_code">>, "failed", "none"))
  ELSE LET m == IF has_code
                  THEN Did(<<"fetch_quiz_page", first, "execute_code",
                             "solve_with_context">>, "failed", direct)
                  ELSE Did(<<"fetch_quiz_page", first, "solve_with_context">>,
                           "none", direct)
       IN IF AnswerIsNone(direct) THEN Failure("Failed to solve quiz", m)
          ELSE Submitted(resp, m)

\* What a solve_quiz call for question number n may return, over all that
\* its collaborators and the scoring server may do.
AttemptResults(force, n) ==
  {solve_quiz(force, env, resp) : env \in Envs, resp \in Responses(ServerUrls(n))}

\* What a submit_answer call for question number n may return.
SubmitResults(n) == {submit_answer(resp) : resp \in Responses(ServerUrls(n))}

NoResult ==
  [correct |-> FALSE, url |-> NULL, reason |-> "none",
   selector |-> FALSE, codegen |-> FALSE, executed |-> "none",
   direct |-> "none", calls |-> <<>>, submitted |-> FALSE]

NoManualResult == [correct |-> FALSE, url |-> NULL, reason |-> "none"]

\* advanced_quiz_solver.py:26: the attempt history of a new solver, an empty dict.
NoAttempts == <<>>

\* advanced_quiz_solver.py:38-44: solve_quiz makes the record of quiz_url if
\* there is none, and adds one to its 'attempts'.
CountAttempt(history, quiz_url) ==
  IF quiz_url \in DOMAIN history
    THEN [history EXCEPT ![quiz_url] = @ + 1]
    ELSE [u \in DOMAIN history \cup {quiz_url} |->
            IF u = quiz_url THEN 1 ELSE history[u]]

(***************************************************************************)
(* Fragments of solve_quiz_chain                                           *)
(***************************************************************************)
\* An inner loop that never ends by its own test.
InnerLoopGuard_Always(rc, solved) == TRUE

\* main.py:147, the inner retry loop's condition.
InnerLoopGuard(rc, solved) == rc < MAX_RETRIES_PER_QUESTION /\ ~solved

\* An attempt counter that is never advanced.
NextRetryCount_Stuck(rc) == rc

\* main.py:148, the attempt counter of the attempt that starts.
NextRetryCount(rc) == rc + 1

\* main.py:149, the flag passed as force_code_execution.
ForceCode(rc) == rc = 1

\* Remembering the url of every result, an absent one included.
RememberNextUrl_Overwrite(lnu, r) == r.url

\* Remembering the url of correct results only.
RememberNextUrl_OnlyCorrect(lnu, r) == IF r.correct /\ Truthy(r.url) THEN r.url ELSE lnu

\* main.py:164-165, the remembered next-URL after a result.
RememberNextUrl(lnu, r) == IF Truthy(r.url) THEN r.url ELSE lnu

\* Falling back on the remembered next-URL when a correct result has none.
NextOnCorrect_Remembered(r, lnu) == IF Truthy(r.url) THEN r.url ELSE lnu

\* main.py:174, the url the chain moves to after a correct result.
NextOnCorrect(r, lnu) == r.url

\* A skip test that does not compare with the current url.
CanSkip_IgnoresCurrent(lnu, cur) == Truthy(lnu)

\* main.py:195, 247, 257, 267: whether a remembered next-URL allows a skip.
CanSkip(lnu, cur) == Truthy(lnu) /\ lnu # cur

\* A timeout test against the server-wide TIMEOUT_SECONDS of config.py.
TimedOut_Config(e) == e >= TIMEOUT_SECONDS

\* main.py:191, the advisory per-question timeout.
TimedOut(e) == e >= QUESTION_TIMEOUT

\* A retry test under which the last attempt is followed by a delay, not a prompt.
ShouldRetry_OffByOne(rc) == rc <= MAX_RETRIES_PER_QUESTION

\* main.py:205, whether another automatic attempt follows.
ShouldRetry(rc) == rc < MAX_RETRIES_PER_QUESTION

\* Ignoring the url the operator typed.
ManualUrl_AlwaysCurrent(typed, cur) == cur

\* main.py:102-121, get_manual_answer: None when the operator skips, else
\* the answer with the url typed in, defaulting to the current url.
ManualUrl(typed, cur) == IF typed = EMPTY THEN cur ELSE typed

\* A remembered next-URL that outlives its question.
FreshNextUrl_Kept(lnu) == lnu

\* main.py:145, last_next_url = None at the start of every iteration.
FreshNextUrl(lnu) == NULL

\* A return that leaves the coroutine without running the finally clause.
ReturnTarget_NoFinally == "done"

\* Where `return` inside the try block leads: the finally clause.
ReturnTarget == "closing"

(***************************************************************************)
(* Initial state: solve_quiz_chain(initial_url) has built its solver.      *)
(***************************************************************************)
Init ==
  /\ pc = "loop"
  /\ current_url \in {"q1", EMPTY}
  /\ question_number = 1
  /\ clock = 0
  /\ retry_count = 0
  /\ question_solved = FALSE
  /\ last_next_url = NULL
  /\ force_code = FALSE
  /\ result = NoResult
  /\ elapsed = 0
  /\ manual_answer = NULL
  /\ manual_quiz_url = NULL
  /\ manual_result = NoManualResult
  /\ http_open = TRUE
  /\ temp_dir_exists = TRUE
  /\ attempt_history = NoAttempts
  /\ exit_reason = "none"
  /\ q_url = NULL
  /\ q_number = 0
  /\ attempts_made = 0
  /\ url_log = <<>>
  /\ prompts = 0
  /\ manual_submits = 0
  /\ typed_url = NULL
  /\ payload_url = NULL
  /\ outcome = "none"
  /\ skip_target = NULL
  /\ request = NoRequest
  /\ response = NoResponse
  /\ runs_started = 0
  /\ call = NoCall
  /\ returned = NoReturn
  /\ NoExecution
  /\ NoScratch

(***************************************************************************)
(* Actions                                                                 *)
(***************************************************************************)
\* main.py:137-145: the outer loop's test and the per-question initialisation.
StartQuestion ==
  /\ pc = "loop"
  /\ IF Truthy(current_url)
       THEN /\ pc' = "inner"
            /\ clock' = 0
            /\ retry_count' = 0
            /\ question_solved' = FALSE
            /\ last_next_url' = FreshNextUrl(last_next_url)
            /\ q_url' = current_url
            /\ q_number' = question_number
            /\ attempts_made' = 0
            /\ url_log' = <<>>
            /\ prompts' = 0
            /\ manual_submits' = 0
            /\ typed_url' = NULL
            /\ payload_url' = NULL
            /\ outcome' = "none"
            /\ skip_target' = NULL
            /\ UNCHANGED <<current_url, question_number, force_code, result, elapsed,
                           manual_answer, manual_quiz_url, manual_result,
                           exit_reason>>
       ELSE /\ pc' = "closing"
            /\ UNCHANGED <<progVars, histVars, exit_reason>>
  /\ UNCHANGED resVars
  /\ UNCHANGED sideVars

\* main.py:147-159, advanced_quiz_solver.py:38-45: the inner loop's test, then
\* the call of solve_quiz, which counts the attempt before anything else.
BeginAttempt ==
  /\ pc = "inner"
  /\ IF InnerLoopGuard(retry_count, question_solved)
       THEN /\ retry_count' = NextRetryCount(retry_count)
            /\ force_code' = ForceCode(NextRetryCount(retry_count))
            /\ attempts_made' = attempts_made + 1
            /\ attempt_history' = CountAttempt(attempt_history, current_url)
            /\ pc' = "solving"
       ELSE /\ pc' = "after_inner"
            /\ UNCHANGED <<retry_count, force_code, attempts_made, attempt_history>>
  /\ UNCHANGED <<current_url, question_number, clock, question_solved, last_next_url,
                 result, elapsed, manual_answer, manual_quiz_url, manual_result,
                 http_open, temp_dir_exists, exit_reason, q_url, q_number, url_log, prompts,
                 manual_submits, typed_url, payload_url, outcome, skip_target>>
  /\ UNCHANGED sideVars

\* main.py:159-213: solve_quiz returns; its result is interpreted up to the
\* next suspension point (the retry delay, the operator prompt) or the exit
\* from the inner loop.
SolveQuizReturns ==
  /\ pc = "solving"
  /\ \E dur \in AttemptDurations, r \in AttemptResults(force_code, question_number) :
       LET e == clock + dur
           lnu == RememberNextUrl(last_next_url, r)
       IN
       /\ result' = r
       /\ clock' = e
       /\ elapsed' = e
       /\ last_next_url' = lnu
       /\ url_log' = Append(url_log, r.url)
       /\ IF r.correct
            THEN \* main.py:168-183
                 /\ question_solved' = TRUE
                 /\ current_url' = NextOnCorrect(r, lnu)
                 /\ outcome' = "solved"
                 /\ IF Truthy(NextOnCorrect(r, lnu))
                      THEN /\ question_number' = question_number + 1
                           /\ pc' = "inner"
                           /\ UNCHANGED exit_reason
                      ELSE /\ pc' = "after_inner"
                           /\ exit_reason' = "completed"
                           /\ UNCHANGED question_number
                 /\ UNCHANGED <<prompts, skip_target>>
            ELSE IF TimedOut(e)
              THEN \* main.py:191-202
                   /\ outcome' = "unsolved"
                   /\ skip_target' = OtherQuestion(lnu, current_url)
                   /\ IF CanSkip(lnu, current_url)
                        THEN /\ current_url' = lnu
                             /\ question_number' = question_number + 1
                             /\ pc' = "after_inner"
                             /\ UNCHANGED exit_reason
                        ELSE /\ pc' = ReturnTarget
                             /\ exit_reason' = "no_next_url"
                             /\ UNCHANGED <<current_url, question_number>>
                   /\ UNCHANGED <<question_solved, prompts>>
            ELSE IF ShouldRetry(retry_count)
              THEN \* main.py:205-207
                   /\ pc' = "sleeping"
                   /\ UNCHANGED <<current_url, question_number, question_solved,
                                  exit_reason, prompts, outcome, skip_target>>
              ELSE \* main.py:208-213, entering get_manual_answer
                   /\ pc' = "prompt"
                   /\ prompts' = prompts + 1
                   /\ UNCHANGED <<current_url, question_number, question_solved,
                                  exit_reason, outcome, skip_target>>
  /\ UNCHANGED <<retry_count, force_code, manual_answer, manual_quiz_url,
                 manual_result, resVars, q_url, q_number, attempts_made,
                 manual_submits, typed_url, payload_url>>
  /\ UNCHANGED sideVars

\* main.py:207: the retry delay elapses and the inner loop is tested again.
RetryDelayElapses ==
  /\ pc = "sleeping"
  /\ pc' = "inner"
  /\ clock' = clock + RETRY_DELAY
  /\ UNCHANGED <<current_url, question_number, retry_count, question_solved,
                 last_next_url, force_code, result, elapsed, manual_answer,
                 manual_quiz_url, manual_result, resVars, exit_reason, histVars>>
  /\ UNCHANGED sideVars

\* main.py:100-121 and 255-264: the operator skips the prompt (an empty
\* answer, or an error while reading it).
ManualSkipped ==
  /\ pc = "prompt"
  /\ manual_answer' = NULL
  /\ manual_quiz_url' = NULL
  /\ outcome' = "unsolved"
  /\ skip_target' = OtherQuestion(last_next_url, current_url)
  /\ IF CanSkip(last_next_url, current_url)
       THEN /\ current_url' = last_next_url
            /\ question_number' = question_number + 1
            /\ pc' = "after_inner"
            /\ UNCHANGED exit_reason
       ELSE /\ pc' = ReturnTarget
            /\ exit_reason' = "no_next_url"
            /\ UNCHANGED <<current_url, question_number>>
  /\ UNCHANGED <<clock, retry_count, question_solved, last_next_url, force_code,
                 result, elapsed, manual_result, resVars, q_url, q_number,
                 attempts_made, url_log, prompts, manual_submits, typed_url,
                 payload_url>>
  /\ UNCHANGED sideVars

\* main.py:100-121 and 215-220: the operator types an answer and a url for
\* the payload; the answer is handed to submit_answer.
ManualAnswered ==
  /\ pc = "prompt"
  /\ \E typed \in Urls \cup {EMPTY} :
       /\ manual_answer' = "answer"
       /\ typed_url' = typed
       /\ manual_quiz_url' = ManualUrl(typed, current_url)
       /\ payload_url' = manual_quiz_url'
  /\ manual_submits' = manual_submits + 1
  /\ pc' = "manual_submitting"
  /\ UNCHANGED <<current_url, question_number, clock, retry_count, question_solved,
                 last_next_url, force_code, result, elapsed, manual_result, resVars,
                 exit_reason, q_url, q_number, attempts_made, url_log, prompts,
                 outcome, skip_target>>
  /\ UNCHANGED sideVars

\* main.py:220-254: submit_answer returns for the manual answer.
ManualSubmitReturns ==
  /\ pc = "manual_submitting"
  /\ \E mr \in SubmitResults(question_number) :
       /\ manual_result' = mr
       /\ IF mr.correct
            THEN \* main.py:222-238
                 /\ question_solved' = TRUE
                 /\ current_url' = mr.url
                 /\ outcome' = "solved"
                 /\ IF Truthy(mr.url)
                      THEN /\ question_number' = question_number + 1
                           /\ pc' = "inner"
                           /\ UNCHANGED exit_reason
                      ELSE /\ pc' = "after_inner"
                           /\ exit_reason' = "completed"
                           /\ UNCHANGED question_number
                 /\ UNCHANGED skip_target
            ELSE \* main.py:239-254
                 /\ outcome' = "unsolved"
                 /\ skip_target' = OtherQuestion(last_next_url, current_url)
                 /\ IF Truthy(mr.url)
                      THEN /\ current_url' = mr.url
                           /\ question_number' = question_number + 1
                           /\ pc' = "after_inner"
                           /\ UNCHANGED exit_reason
                      ELSE IF CanSkip(last_next_url, current_url)
                        THEN /\ current_url' = last_next_url
                             /\ question_number' = question_number + 1
                             /\ pc' = "after_inner"
                             /\ UNCHANGED exit_reason
                        ELSE /\ pc' = ReturnTarget
                             /\ exit_reason' = "no_next_url"
                             /\ UNCHANGED <<current_url, question_number>>
                 /\ UNCHANGED question_solved
  /\ UNCHANGED <<clock, retry_count, last_next_url, force_code, result, elapsed,
                 manual_answer, manual_quiz_url, resVars, q_url, q_number,
                 attempts_made, url_log, prompts, manual_submits, typed_url,
                 payload_url>>
  /\ UNCHANGED sideVars

\* main.py:266-273: after the inner loop.
AfterInnerLoop ==
  /\ pc = "after_inner"
  /\ IF ~question_solved /\ CanSkip(last_next_url, current_url)
       THEN /\ current_url' = last_next_url
            /\ question_number' = question_number + 1
            /\ pc' = "loop"
            /\ UNCHANGED exit_reason
       ELSE IF ~question_solved
         THEN /\ pc' = "closing"
              /\ exit_reason' = "cannot_continue"
              /\ UNCHANGED <<current_url, question_number>>
         ELSE /\ pc' = "loop"
              /\ UNCHANGED <<current_url, question_number, exit_reason>>
  /\ UNCHANGED <<clock, retry_count, question_solved, last_next_url, force_code,
                 result, elapsed, manual_answer, manual_quiz_url, manual_result,
                 resVars, histVars>>
  /\ UNCHANGED sideVars

\* main.py:91-98 and 275-276: a print of get_manual_answer, outside its try
\* block, raises (standard output closed); the chain's handler catches it.
PromptRaises ==
  /\ pc = "prompt"
  /\ pc' = "closing"
  /\ exit_reason' = "exception"
  /\ UNCHANGED <<progVars, resVars, histVars>>
  /\ UNCHANGED sideVars

\* The task is cancelled while it awaits solve_quiz, the retry delay or
\* submit_answer: CancelledError passes the handler, the finally clause runs.
Cancelled ==
  /\ pc \in {"solving", "sleeping", "manual_submitting"}
  /\ pc' = "closing"
  /\ exit_reason' = "cancelled"
  /\ UNCHANGED <<progVars, resVars, histVars>>
  /\ UNCHANGED sideVars

\* main.py:277-279, advanced_quiz_solver.py:788-792, code_executor.py:329-336:
\* solver.close() closes the HTTP clients and removes the scratch root.
Close ==
  /\ pc = "closing"
  /\ pc' = "done"
  /\ http_open' = FALSE
  /\ temp_dir_exists' = FALSE
  /\ UNCHANGED <<progVars, attempt_history, exit_reason, histVars>>
  /\ UNCHANGED sideVars

Next ==
  \/ StartQuestion
  \/ BeginAttempt
  \/ SolveQuizReturns
  \/ RetryDelayElapses
  \/ ManualSkipped
  \/ ManualAnswered
  \/ ManualSubmitReturns
  \/ AfterInnerLoop
  \/ PromptRaises
  \/ Cancelled
  \/ Close

Spec == Init /\ [][Next]_vars

\* The steps the run takes when what it awaits returns: every step but the
\* cancellation of the task and the failure of the prompt's output.
Proceeds ==
  \/ StartQuestion
  \/ BeginAttempt
  \/ SolveQuizReturns
  \/ RetryDelayElapses
  \/ ManualSkipped
  \/ ManualAnswered
  \/ ManualSubmitReturns
  \/ AfterInnerLoop
  \/ Close

\* The chain when every call it awaits returns in the end (the page fetch,
\* the model, the child process, the submission, the operator's prompt) and
\* the event loop keeps scheduling the coroutine.  The server names a next
\* URL only for the first MaxQuestions - 1 question numbers (ServerUrls).
SpecLive == Init /\ [][Next]_vars /\ WF_vars(Proceeds)

\* No solve_quiz_chain coroutine exists: its variables hold nothing.
NoChainRun ==
  /\ pc = "idle"
  /\ current_url = NULL
  /\ question_number = 1
  /\ clock = 0
  /\ retry_count = 0
  /\ question_solved = FALSE
  /\ last_next_url = NULL
  /\ force_code = FALSE
  /\ result = NoResult
  /\ elapsed = 0
  /\ manual_answer = NULL
  /\ manual_quiz_url = NULL
  /\ manual_result = NoManualResult
  /\ http_open = FALSE
  /\ temp_dir_exists = FALSE
  /\ attempt_history = NoAttempts
  /\ exit_reason = "none"
  /\ q_url = NULL
  /\ q_number = 0
  /\ attempts_made = 0
  /\ url_log = <<>>
  /\ prompts = 0
  /\ manual_submits = 0
  /\ typed_url = NULL
  /\ payload_url = NULL
  /\ outcome = "none"
  /\ skip_target = NULL

(***************************************************************************)
(* The POST / handler, handle_quiz (main.py:30-79)                         *)
(***************************************************************************)
\* config.EMAIL and config.SECRET, the configured identity.
EMAIL == "student@example.org"
SECRET == "s3cret"

\* Status codes handle_quiz answers with.
HTTP_BAD_REQUEST == 400
HTTP_FORBIDDEN == 403
HTTP_SERVER_ERROR == 500

\* What a field of a JSON object body may be: absent, a JSON array, a JSON
\* number, or a string.
FieldAbsent == "<absent>"
ArrayValue == "<array>"
NumberValue == "<number>"
NumberText == "12345"

\* The string pydantic makes of a field value when it coerces numbers to str.
CoerceToStr(v) == IF v = NumberValue THEN NumberText ELSE v

\* The request bodies: bytes that are not JSON, a JSON value that is not an
\* object (array, string, number, null), or an object with its three fields.
Requests ==
  [kind : {"not_json", "non_object"}, email : {FieldAbsent}, secret : {FieldAbsent},
   url : {FieldAbsent}]
  \cup
  [kind : {"object"},
   email : {FieldAbsent, ArrayValue, NumberValue, EMAIL, "other@example.org"},
   secret : {FieldAbsent, ArrayValue, NumberValue, SECRET, "guess"},
   url : {FieldAbsent, ArrayValue, NumberValue, "q1", EMPTY}]

\* A field is a JSON string.
IsString(v) == v \notin {FieldAbsent, ArrayValue, NumberValue}

\* main.py:20-23, 43: QuizRequest(**body) accepts a field that is a string,
\* and a number where the installed pydantic coerces numbers to str.
FieldAccepted(v, coerces) == IsString(v) \/ (coerces /\ v = NumberValue)

\* A secret check that lets every secret through.
SecretMatches_Any(s) == TRUE

\* main.py:49, the secret check.
SecretMatches(s) == s = SECRET

\* main.py:54, the email check.
EmailMatches(e) == e = EMAIL

\* main.py:33-79: the response of handle_quiz and whether it created the
\* chain task.  A body that is not a mapping makes QuizRequest(**body) raise
\* TypeError, which is not a ValidationError and ends in the handler's
\* `except Exception` (main.py:74-79).
handle_quiz(req, coerces) ==
  IF req.kind = "not_json"
    THEN [status |-> HTTP_BAD_REQUEST, detail |-> "Invalid JSON payload",
          url |-> NULL, started |-> FALSE]
  ELSE IF req.kind = "non_object"
    THEN [status |-> HTTP_SERVER_ERROR, detail |-> "error",
          url |-> NULL, started |-> FALSE]
  ELSE IF ~(/\ FieldAccepted(req.email, coerces)
            /\ FieldAccepted(req.secret, coerces)
            /\ FieldAccepted(req.url, coerces))
    THEN [status |-> HTTP_BAD_REQUEST, detail |-> "Invalid request format",
          url |-> NULL, started |-> FALSE]
  ELSE IF ~SecretMatches(CoerceToStr(req.secret))
    THEN [status |-> HTTP_FORBIDDEN, detail |-> "Invalid secret",
          url |-> NULL, started |-> FALSE]
  ELSE IF ~EmailMatches(CoerceToStr(req.email))
    THEN [status |-> HTTP_FORBIDDEN, detail |-> "Email does not match",
          url |-> NULL, started |-> FALSE]
  ELSE [status |-> HTTP_OK, detail |-> "accepted",
        url |-> CoerceToStr(req.url), started |-> TRUE]

\* The service is up, one request has arrived, no chain run exists yet.
InitHttp ==
  /\ NoChainRun
  /\ request \in Requests
  /\ response = NoResponse
  /\ runs_started = 0
  /\ call = NoCall
  /\ returned = NoReturn
  /\ NoExecution
  /\ NoScratch

\* main.py:30-79: the whole handler.  On acceptance the chain task is created
\* (main.py:61; solve_quiz_chain builds its solver, main.py:129-131) and the
\* response is returned at once.
HandleQuiz ==
  /\ response = NoResponse
  /\ request.kind # "none"
  /\ \E coerces \in BOOLEAN :
       LET h == handle_quiz(request, coerces) IN
       /\ response' = [status |-> h.status, detail |-> h.detail, url |-> h.url]
       /\ IF h.started
            THEN /\ runs_started' = runs_started + 1
                 /\ pc' = "loop"
                 /\ current_url' = h.url
                 /\ http_open' = TRUE
                 /\ temp_dir_exists' = TRUE
                 /\ attempt_history' = NoAttempts
            ELSE UNCHANGED <<runs_started, pc, current_url, resVars>>
  /\ UNCHANGED <<question_number, clock, retry_count, question_solved, last_next_url,
                 force_code, result, elapsed, manual_answer, manual_quiz_url,
                 manual_result, exit_reason, histVars, request, fnVars, execVars, fsVars>>

NextHttp ==
  \/ HandleQuiz
  \/ StartQuestion
  \/ BeginAttempt
  \/ SolveQuizReturns
  \/ RetryDelayElapses
  \/ ManualSkipped
  \/ ManualAnswered
  \/ ManualSubmitReturns
  \/ AfterInnerLoop
  \/ PromptRaises
  \/ Cancelled
  \/ Close

SpecHttp == InitHttp /\ [][NextHttp]_vars

(***************************************************************************)
(* AdvancedQuizSolver.submit_answer on its own                             *)
(* (advanced_quiz_solver.py:722-786)                                       *)
(***************************************************************************)
NotFoundStatus == 404

\* The body of a scoring-server response: text that is not JSON, a JSON
\* array, or a JSON object with or without its correct and url keys.
Bodies ==
  [kind : {"text", "array"}, has_correct : {FALSE}, correct : {FALSE},
   has_url : {FALSE}, url : {NULL}]
  \cup
  [kind : {"object"}, has_correct : {FALSE}, correct : {FALSE},
   has_url : BOOLEAN, url : {"q2", EMPTY, NULL}]
  \cup
  [kind : {"object"}, has_correct : {TRUE}, correct : BOOLEAN,
   has_url : BOOLEAN, url : {"q2", EMPTY, NULL}]

\* What self.http_client.post does: it raises, or it returns a response.
Posts ==
  [raised : {TRUE}, error : {"ConnectError", "ReadTimeout"}, status : {0},
   body : {[kind |-> "text", has_correct |-> FALSE, correct |-> FALSE,
            has_url |-> FALSE, url |-> NULL]}]
  \cup
  [raised : {FALSE}, error : {"none"}, status : {HTTP_OK, NonOkStatus, NotFoundStatus},
   body : Bodies]

\* dict.get(key, default) on the parsed body.
GetCorrect(body) == IF body.has_correct THEN body.correct ELSE FALSE
GetUrl(body) == IF body.has_url THEN body.url ELSE NULL

\* An error branch that passes the body's url on.
ErrorUrl_FromBody(body) == GetUrl(body)

\* advanced_quiz_solver.py:776-781, the url of the result for a non-200 response.
ErrorUrl(body) == NULL

\* advanced_quiz_solver.py:722-786.  The reason is kept structured: its
\* kind, and the status and raw body that f"HTTP {status}: {text}" prints.
\* A JSON array parses, but response_data.get raises AttributeError on it,
\* which the outer `except Exception` turns into a result.
submit_answer_result(post) ==
  IF post.raised
    THEN [correct |-> FALSE, url |-> NULL,
          reason |-> [kind |-> post.error, status |-> 0, body |-> post.body]]
  ELSE IF post.status = HTTP_OK
    THEN IF post.body.kind = "array"
           THEN [correct |-> FALSE, url |-> NULL,
                 reason |-> [kind |-> "AttributeError", status |-> 0, body |-> post.body]]
         ELSE IF post.body.kind = "text"
           THEN [correct |-> FALSE, url |-> NULL,
                 reason |-> [kind |-> "server", status |-> 0, body |-> post.body]]
         ELSE [correct |-> GetCorrect(post.body), url |-> GetUrl(post.body),
               reason |-> [kind |-> "server", status |-> 0, body |-> post.body]]
  ELSE [correct |-> FALSE, url |-> ErrorUrl(post.body),
        reason |-> [kind |-> "HTTP", status |-> post.status, body |-> post.body]]

\* One submit_answer call whose POST is about to be answered.
InitSubmit ==
  /\ NoChainRun
  /\ request = NoRequest
  /\ response = NoResponse
  /\ runs_started = 0
  /\ call \in [fn : {"submit_answer"}, post : Posts]
  /\ returned = NoReturn
  /\ NoExecution
  /\ NoScratch

\* The call runs to its return statement.
SubmitAnswerReturns ==
  /\ call.fn = "submit_answer"
  /\ returned.fn = "none"
  /\ returned' = [fn |-> "submit_answer", value |-> submit_answer_result(call.post)]
  /\ UNCHANGED <<pc, progVars, resVars, exit_reason, histVars, httpVars, call, execVars, fsVars>>

NextSubmit ==
  \/ SubmitAnswerReturns

SpecSubmit == InitSubmit /\ [][NextSubmit]_vars

(***************************************************************************)
(* The submission target of solve_quiz: the fixed endpoint and             *)
(* extract_quiz_page_url (advanced_quiz_solver.py:60-63, 368-418)          *)
(***************************************************************************)
\* Page content and urls are sequences of pieces of text.  A piece is a
\* url scheme, a run of ordinary url characters, one punctuation character,
\* a blank, a backtick, a closing parenthesis, or a word of the instruction.
SUBMIT_URL == "https://tds-llm-analysis.s-anand.net/submit"
Schemes == {"https://", "http://"}
Blank == " "
Tick == "<backtick>"
Punctuation == {".", ",", "!", "?"}
\* Characters the url pattern's class excludes: white space, the backtick,
\* brackets, braces, angle brackets, the double quote, |, \ and ^.
UrlStops == {Blank, Tick, ")"}

\* The piece at position i, or a stop when i is outside the content.
At(c, i) == IF i \in 1..Len(c) THEN c[i] ELSE Blank

\* Matching under re.IGNORECASE.
IsWith(t) == t \in {"with", "With", "WITH"}
IsUrlWord(t) == t \in {"url", "URL"}

\* \s* from position i: the first position that holds no blank.
RECURSIVE SkipBlanks(_, _)
SkipBlanks(c, i) == IF i <= Len(c) /\ c[i] = Blank THEN SkipBlanks(c, i + 1) ELSE i

\* An optional backtick at position i.
SkipTick(c, i) == IF At(c, i) = Tick /\ i <= Len(c) THEN i + 1 ELSE i

\* The run of url characters from position i: the first position past it.
RECURSIVE UrlEnd(_, _)
UrlEnd(c, i) == IF i <= Len(c) /\ c[i] \notin UrlStops THEN UrlEnd(c, i + 1) ELSE i

\* Where url_field_pattern (advanced_quiz_solver.py:382), tried at position
\* i, has its group: <<first, last>>, or <<0, 0>> when it does not match
\* there.  The pattern is: with, blanks, optional backtick, url, optional
\* backtick, optional blanks, =, optional blanks, optional backtick, then
\* the group: a scheme and at least one url character.
GroupAt(c, i) ==
  LET j2 == SkipBlanks(c, i + 1)
      j3 == SkipTick(c, j2)
      j4 == SkipTick(c, j3 + 1)
      j5 == SkipBlanks(c, j4)
      j6 == SkipBlanks(c, j5 + 1)
      j7 == SkipTick(c, j6)
      j8 == UrlEnd(c, j7 + 1)
  IN IF /\ IsWith(At(c, i))
        /\ j2 > i + 1
        /\ IsUrlWord(At(c, j3))
        /\ At(c, j5) = "="
        /\ At(c, j7) \in Schemes
        /\ j8 > j7 + 1
       THEN <<j7, j8 - 1>>
       ELSE <<0, 0>>

\* re.findall(...)[0]: the group of the leftmost match, <<>> when none.
FirstMatch(c) ==
  LET starts == {i \in 1..Len(c) : GroupAt(c, i) # <<0, 0>>} IN
  IF starts = {} THEN <<>>
  ELSE LET i == CHOOSE k \in starts : \A m \in starts : k <= m
           g == GroupAt(c, i)
       IN SubSeq(c, g[1], g[2])

\* The number of "." pieces after the scheme.
RECURSIVE DotCount(_)
DotCount(u) == IF u = <<>> THEN 0
               ELSE (IF Head(u) = "." THEN 1 ELSE 0) + DotCount(Tail(u))

\* A cleaner that leaves the match as it is.
CleanUrl_Keep(u) == u

\* advanced_quiz_solver.py:394-418, _clean_url: trailing punctuation goes.
\* Every branch for a trailing dot of a url with a scheme removes it.
RECURSIVE CleanUrl(_)
CleanUrl(u) ==
  IF u = <<>> \/ u[Len(u)] \notin Punctuation THEN u
  ELSE IF u[Len(u)] = "."
    THEN IF Head(u) \in Schemes
           THEN IF DotCount(Tail(u)) >= 1
                  THEN CleanUrl(SubSeq(u, 1, Len(u) - 1))
                  ELSE u
           ELSE u
    ELSE CleanUrl(SubSeq(u, 1, Len(u) - 1))

\* advanced_quiz_solver.py:368-392.
extract_quiz_page_url(content, fallback_url) ==
  IF FirstMatch(content) # <<>> THEN CleanUrl(FirstMatch(content)) ELSE fallback_url

\* The urls a page or a fetch may name.
PageUrls ==
  { <<"https://", "host", "/q2">>,
    <<"http://", "host", ".", "org", "/q2", ".", "html">>,
    <<"https://", "host", "/q2", "?", "id", "=", "7">> }
FetchedUrl == <<"https://", "host", "/q1">>

\* The ways a page words the instruction around its url u.
Instructions(u) ==
  { <<"with", Blank, "url", Blank, "=", Blank>> \o u,
    <<"with", Blank, Tick, "url", Tick, Blank, "=", Blank, Tick>> \o u \o <<Tick>>,
    <<"With", Blank, Blank, "URL", "=">> \o u }

\* Text before the instruction: nothing, words, a link to a data file, a
\* "with" that opens no instruction.
Befores ==
  { <<>>,
    <<"text", Blank>>,
    <<"https://", "host", "/data", ".", "csv", Blank>>,
    <<"with", Blank, "text", Blank>> }

\* Text after the url: the end of the page, the end of a sentence, more text.
Afters ==
  { <<>>,
    <<".">>,
    <<",", Blank, "text">>,
    <<Blank, "text", ".">>,
    <<"!">>,
    <<")", ".">> }

\* Page content without an instruction: text, or a url that no
\* "with url =" introduces.
PlainPages ==
  { b \o a : b \in Befores, a \in {<<"text">>, <<"url", Blank, "=", Blank, "https://", "host", "/q3">>,
                                   <<"with", Blank, "https://", "host", "/q3">>} }

\* The calls of extract_quiz_page_url: the content, the url that was
\* fetched, and the url the page's instruction gives (<<>> when it has none).
ExtractCalls ==
  UNION { { [fn |-> "extract_quiz_page_url", content |-> b \o i \o a,
             fallback_url |-> FetchedUrl, instructed |-> u] :
              b \in Befores, a \in Afters, i \in Instructions(u) } : u \in PageUrls }
  \cup
  { [fn |-> "extract_quiz_page_url", content |-> pg,
     fallback_url |-> FetchedUrl, instructed |-> <<>>] : pg \in PlainPages }

InitExtract ==
  /\ NoChainRun
  /\ request = NoRequest
  /\ response = NoResponse
  /\ runs_started = 0
  /\ call \in ExtractCalls
  /\ returned = NoReturn
  /\ NoExecution
  /\ NoScratch

\* advanced_quiz_solver.py:60-63: the endpoint and the payload url of the
\* submission that solve_quiz goes on to make.
ExtractReturns ==
  /\ call.fn = "extract_quiz_page_url"
  /\ returned.fn = "none"
  /\ returned' = [fn |-> "extract_quiz_page_url",
                  submit_url |-> SUBMIT_URL,
                  quiz_page_url |-> extract_quiz_page_url(call.content, call.fallback_url)]
  /\ UNCHANGED <<pc, progVars, resVars, exit_reason, histVars, httpVars, call, execVars, fsVars>>

NextExtract ==
  \/ ExtractReturns

SpecExtract == InitExtract /\ [][NextExtract]_vars

(***************************************************************************)
(* LLMClient.get_solution_strategy (llm_client.py:42-80, 133-179)          *)
(***************************************************************************)
\* A model response is a sequence of pieces: a code fence (three
\* backticks), a word that may follow a fence as its language tag, a line
\* break, a line of code, prose, or a strategy declaration.
FENCE == "<fence>"
NL == "<newline>"
PythonTags == {"python", "Python"}
StrategyTokens == {"STRATEGY: CODE_EXECUTION", "Strategy: code_execution"}

\* llm_client.py:145-152 (some of the keywords) and questions with and
\* without one of them.
ExecutionKeywords == {"plot", "chart", "regression", "correlation"}
Questions == { <<"what", "is", "2", "+", "2">>, <<"plot", "sales", "by", "region">> }

\* llm_client.py:154-155: any keyword in the lowered question text.
HasKeyword(q) == \E i \in 1..Len(q) : q[i] \in ExecutionKeywords

\* llm_client.py:137: the declaration, compared in upper case.
HasStrategyToken(c) == \E i \in 1..Len(c) : c[i] \in StrategyTokens

\* A test for tagged fences that never finds one.
HasPythonFence_Never(c) == FALSE

\* llm_client.py:141: a fence directly followed by python or Python.
HasPythonFence(c) ==
  \E i \in 1..Len(c) : c[i] = FENCE /\ i < Len(c) /\ c[i + 1] \in PythonTags

\* llm_client.py:157: any fence.
HasFence(c) == \E i \in 1..Len(c) : c[i] = FENCE

\* llm_client.py:133-160, _needs_code_execution.
needs_code_execution(c, q) ==
  \/ HasStrategyToken(c)
  \/ HasPythonFence(c)
  \/ (HasKeyword(q) /\ HasFence(c))

\* str.strip() on a sequence of pieces.
RECURSIVE Strip(_)
Strip(x) ==
  IF x = <<>> THEN x
  ELSE IF Head(x) = NL THEN Strip(Tail(x))
  ELSE IF x[Len(x)] = NL THEN Strip(SubSeq(x, 1, Len(x) - 1))
  ELSE x

\* \s* from position i.
RECURSIVE SkipSpace(_, _)
SkipSpace(c, i) == IF i <= Len(c) /\ c[i] = NL THEN SkipSpace(c, i + 1) ELSE i

\* llm_client.py:162-179, _extract_code: the pattern is a fence, an optional
\* python/Python, optional white space, the shortest text up to the next
\* fence.  found is false where the code returns None.
extract_code(c) ==
  LET opens == {i \in 1..Len(c) : c[i] = FENCE /\ \E j \in (i + 1)..Len(c) : c[j] = FENCE} IN
  IF opens = {} THEN [found |-> FALSE, code |-> <<>>]
  ELSE LET i == CHOOSE k \in opens : \A m \in opens : k <= m
           j == CHOOSE k \in (i + 1)..Len(c) :
                  c[k] = FENCE /\ \A m \in (i + 1)..(k - 1) : c[m] # FENCE
           t == IF c[i + 1] \in PythonTags THEN i + 2 ELSE i + 1
           b == SkipSpace(c, t)
       IN [found |-> TRUE, code |-> Strip(SubSeq(c, b, j - 1))]

\* A test that takes whatever was extracted.
CodeUsable_Always(x) == TRUE

\* llm_client.py:71, `if code:` on what _extract_code returned.
CodeUsable(x) == x.found /\ x.code # <<>>

\* The two results.
Direct == [strategy |-> "direct", has_code |-> FALSE, code |-> <<>>]
CodeExecution(code) == [strategy |-> "code_execution", has_code |-> TRUE, code |-> code]

\* llm_client.py:42-80.  A failed backend call returns None (line 63); a
\* response without choices[0].message.content raises and is caught (78).
get_solution_strategy(reply, q) ==
  IF reply.kind # "ok" THEN Direct
  ELSE IF needs_code_execution(reply.content, q) /\ CodeUsable(extract_code(reply.content))
    THEN CodeExecution(extract_code(reply.content).code)
    ELSE Direct

\* The pieces responses are built from.
Tags == {"", "python", "Python", "js"}
Codes == { <<>>, <<"x = 1">>, <<"import pandas", NL, "answer = 1">> }
Pads == { <<>>, <<NL>> }
TagSeq(t) == IF t = "" THEN <<>> ELSE <<t>>
Block(t, pad, code) == <<FENCE>> \o TagSeq(t) \o pad \o code \o pad \o <<FENCE>>
Prefixes ==
  { <<>>, <<"Here is the solution.", NL>>, <<"STRATEGY: DIRECT", NL>>,
    <<"STRATEGY: CODE_EXECUTION", NL>>, <<"Strategy: code_execution", NL>> }
Suffixes == { <<>>, <<NL, "This computes the answer.">> }

\* What call_api and the indexing of its result give: a failure, a
\* response of the wrong shape, or a content.  Beside the content stands
\* what it was built from: whether it has a closed block, the tag and code
\* of its first closed block, whether some fence is tagged python.
Replies ==
  { [kind |-> k, content |-> <<>>, closed |-> FALSE, tag |-> "", code |-> <<>>,
     py_fence |-> FALSE, declared |-> FALSE] : k \in {"failed", "malformed"} }
  \cup
  \* no fence at all
  { [kind |-> "ok", content |-> p \o <<"The answer is 4.">> \o x, closed |-> FALSE,
     tag |-> "", code |-> <<>>, py_fence |-> FALSE,
     declared |-> (p # <<>> /\ Head(p) \in StrategyTokens)] :
       p \in Prefixes, x \in Suffixes }
  \cup
  \* a fence that is never closed
  { [kind |-> "ok", content |-> p \o <<FENCE>> \o TagSeq(t) \o <<NL, "x = 1">>,
     closed |-> FALSE, tag |-> t, code |-> <<>>, py_fence |-> (t \in PythonTags),
     declared |-> (p # <<>> /\ Head(p) \in StrategyTokens)] :
       p \in Prefixes, t \in Tags }
  \cup
  \* one closed block
  { [kind |-> "ok", content |-> p \o Block(t, pad, code) \o x, closed |-> TRUE,
     tag |-> t, code |-> code, py_fence |-> (t \in PythonTags),
     declared |-> (p # <<>> /\ Head(p) \in StrategyTokens)] :
       p \in Prefixes, t \in Tags, pad \in Pads, code \in Codes, x \in Suffixes }
  \cup
  \* a closed block followed by a python block
  { [kind |-> "ok",
     content |-> p \o Block(t, <<NL>>, code) \o <<NL>> \o Block("python", <<NL>>, <<"y = 2">>),
     closed |-> TRUE, tag |-> t, code |-> code, py_fence |-> TRUE,
     declared |-> (p # <<>> /\ Head(p) \in StrategyTokens)] :
       p \in Prefixes, t \in Tags, code \in Codes }

InitStrategy ==
  /\ NoChainRun
  /\ request = NoRequest
  /\ response = NoResponse
  /\ runs_started = 0
  /\ call \in [fn : {"get_solution_strategy"}, reply : Replies, question : Questions]
  /\ returned = NoReturn
  /\ NoExecution
  /\ NoScratch

\* The call runs to one of its return statements.
StrategyReturns ==
  /\ call.fn = "get_solution_strategy"
  /\ returned.fn = "none"
  /\ returned' = [fn |-> "get_solution_strategy",
                  value |-> get_solution_strategy(call.reply, call.question)]
  /\ UNCHANGED <<pc, progVars, resVars, exit_reason, histVars, httpVars, call, execVars, fsVars>>

NextStrategy ==
  \/ StrategyReturns

SpecStrategy == InitStrategy /\ [][NextStrategy]_vars

(***************************************************************************)
(* CodeExecutor.execute_code (code_executor.py:22-111, 203-268)            *)
(***************************************************************************)
\* code_executor.py:20, the timeout of one run, in seconds.
EXEC_TIMEOUT == 60

\* How long the child would run if left alone.
RunQuick == 5
RunSlow == 75

\* Python values of the user code's variables: None, a falsy number, truthy
\* values, and an object json cannot encode.
ZERO == "0"
OBJECT == "<DataFrame>"
Values == {NONE, ZERO, "42", "7", OBJECT}

\* `not x` is false for these.
PyTruthy(v) == v \notin {NONE, ZERO, UNBOUND}

\* json.dumps(..., default=str) then json.loads: what json cannot encode
\* comes back as its str().
JsonRoundTrip(v) == IF v = OBJECT THEN "str(<DataFrame>)" ELSE v

\* code_executor.py:86: the extensions the wrapper looks for, one file name
\* for the image family, one for a spreadsheet and two for json, the second
\* a file that json.load cannot parse.
CreatedFiles == {"plot.png", "out.json", "table.xlsx", "empty.json"}

\* What the user code writes on its own standard output: nothing that looks
\* like a marker, or a marker block of its own, holding text that is not
\* JSON or naming a file that does not exist.
OwnOutputs == {"nothing", "malformed", "missing_file"}

\* What the user code may do: end normally, raise an exception, fail to
\* compile, or leave through sys.exit(0); the values it binds; the file it
\* finds in the working directory and the file it creates there.
Scripts ==
  [raises : {"none", "Exception", "SyntaxError", "SystemExit"},
   answer : {UNBOUND} \cup Values,
   result : {UNBOUND} \cup Values,
   input_file : {EMPTY, "data.csv"},
   created_file : {EMPTY} \cup CreatedFiles,
   prints : OwnOutputs,
   runtime : {RunQuick, RunSlow}]

\* A capture that prefers result.
Captured_ResultFirst(sc) ==
  IF sc.result # UNBOUND THEN sc.result
  ELSE IF sc.answer # UNBOUND THEN sc.answer
  ELSE NONE

\* code_executor.py:69, 79-82: __result__ after the capture.
Captured(sc) ==
  IF sc.answer # UNBOUND THEN sc.answer
  ELSE IF sc.result # UNBOUND THEN sc.result
  ELSE NONE

\* code_executor.py:85-92: the file of the allow-listed extensions with the
\* latest creation time, EMPTY when the directory holds none.
LatestFile(sc) ==
  IF sc.created_file # EMPTY THEN sc.created_file ELSE sc.input_file

\* code_executor.py:89-92: __output_file__.
OutputFile(sc) ==
  IF LatestFile(sc) # EMPTY /\ ~PyTruthy(Captured(sc)) THEN LatestFile(sc) ELSE EMPTY

\* Standard output without a marker block.
NoBlock ==
  [marker |-> FALSE, well_formed |-> FALSE, has_result |-> FALSE,
   result |-> NONE, output_file |-> EMPTY]

\* code_executor.py:98-109: the block the wrapper prints after the try
\* statement.
WrapperBlock(sc) ==
  [marker |-> TRUE, well_formed |-> TRUE,
   has_result |-> (Captured(sc) # NONE),
   result |-> JsonRoundTrip(Captured(sc)),
   output_file |-> OutputFile(sc)]

\* The block the user code printed itself.
UserBlock(sc) ==
  IF sc.prints = "malformed"
    THEN [NoBlock EXCEPT !.marker = TRUE]
  ELSE IF sc.prints = "missing_file"
    THEN [NoBlock EXCEPT !.marker = TRUE, !.well_formed = TRUE,
                         !.output_file = "gone.png"]
  ELSE NoBlock

\* code_executor.py:248-250: str.index finds the first start marker and the
\* first end marker, so a block the user code printed comes before the
\* wrapper's.
FirstBlock(sc, wrapper_reached) ==
  IF sc.prints # "nothing" THEN UserBlock(sc)
  ELSE IF wrapper_reached THEN WrapperBlock(sc)
  ELSE NoBlock

\* A child that has ended with an exit status, a standard error text and
\* the first marker block of its standard output.
Child(rc, err, b) ==
  [state |-> "exited", returncode |-> rc, marker |-> b.marker,
   well_formed |-> b.well_formed, has_result |-> b.has_result,
   result |-> b.result, output_file |-> b.output_file, stderr |-> err]

\* code_executor.py:58-110: the child process running the wrapped script to
\* its end: exit status, what it wrote between the markers on stdout, and
\* its stderr.  A script that does not compile runs no statement; user code
\* prints before it raises or exits.
wrapped_script(sc) ==
  IF sc.raises = "SyntaxError"
    THEN Child(1, "SyntaxError: invalid syntax", NoBlock)
  ELSE IF sc.raises = "Exception"
    THEN Child(1, "EXECUTION_ERROR: ... Traceback ...", FirstBlock(sc, FALSE))
  ELSE IF sc.raises = "SystemExit"
    THEN Child(0, EMPTY, FirstBlock(sc, FALSE))
  ELSE Child(0, EMPTY, FirstBlock(sc, TRUE))

\* code_executor.py:285, os.path.splitext(filepath)[1].lower().
Extension(f) ==
  IF f = "plot.png" THEN ".png"
  ELSE IF f = "out.json" THEN ".json"
  ELSE IF f = "table.xlsx" THEN ".xlsx"
  ELSE IF f = "data.csv" THEN ".csv"
  ELSE IF f = "empty.json" THEN ".json"
  ELSE IF f = "gone.png" THEN ".png"
  ELSE EMPTY

\* code_executor.py:289-295, the MIME type of an image extension.
ImageMime(ext) ==
  IF ext = ".png" THEN "data:image/png;base64,..."
  ELSE IF ext \in {".jpg", ".jpeg"} THEN "data:image/jpeg;base64,..."
  ELSE "data:image/svg+xml;base64,..."

\* code_executor.py:270-327, _process_output_file: None for a file that does
\* not exist and for one whose reading raises; otherwise by extension: an
\* image and a spreadsheet become data URIs of their MIME type, a csv file
\* is read and re-encoded, a json file is loaded, anything else is an octet
\* stream.
process_output_file(f) ==
  LET ext == Extension(f) IN
    IF f = "gone.png" THEN NONE
    ELSE IF f = "empty.json" THEN NONE
    ELSE IF ext \in {".png", ".jpg", ".jpeg", ".svg"} THEN ImageMime(ext)
    ELSE IF ext = ".csv" THEN "data:text/csv;base64,..."
    ELSE IF ext = ".json" THEN "<parsed out.json>"
    ELSE IF ext \in {".xlsx", ".xls"}
      THEN "data:application/vnd.openxmlformats-officedocument.spreadsheetml.sheet;base64,..."
    ELSE "data:application/octet-stream;base64,..."

\* A parser that looks for the output file before the result.
parse_output_FileFirst(p) ==
  IF ~p.marker THEN NONE
  ELSE IF ~p.well_formed THEN NONE
  ELSE IF p.output_file # EMPTY THEN process_output_file(p.output_file)
  ELSE IF p.has_result THEN p.result
  ELSE NONE

\* code_executor.py:244-268, _parse_output: None without the markers and
\* when json.loads raises, the result key first, then the output file.
parse_output(p) ==
  IF ~p.marker THEN NONE
  ELSE IF ~p.well_formed THEN NONE
  ELSE IF p.has_result THEN p.result
  ELSE IF p.output_file # EMPTY THEN process_output_file(p.output_file)
  ELSE NONE

\* A test that takes every exit status for success.
ExitFailed_Never(rc) == FALSE

\* code_executor.py:227, the exit status test.
ExitFailed(rc) == rc # 0

\* A reading that takes any marker block of a child that ended with status 0
\* for a result.
run_script_result_AnyBlock(p) ==
  IF ExitFailed(p.returncode)
    THEN [success |-> FALSE, value |-> NONE,
          error |-> [kind |-> "Execution failed: ", stderr |-> p.stderr]]
  ELSE IF p.marker
    THEN [success |-> TRUE, value |-> parse_output(p),
          error |-> [kind |-> EMPTY, stderr |-> EMPTY]]
  ELSE [success |-> FALSE, value |-> NONE,
        error |-> [kind |-> "Could not extract result from execution", stderr |-> EMPTY]]

\* code_executor.py:223-238: what _run_script makes of a finished child.
run_script_result(p) ==
  IF ExitFailed(p.returncode)
    THEN [success |-> FALSE, value |-> NONE,
          error |-> [kind |-> "Execution failed: ", stderr |-> p.stderr]]
  ELSE IF parse_output(p) # NONE
    THEN [success |-> TRUE, value |-> parse_output(p),
          error |-> [kind |-> EMPTY, stderr |-> EMPTY]]
  ELSE [success |-> FALSE, value |-> NONE,
        error |-> [kind |-> "Could not extract result from execution", stderr |-> EMPTY]]

\* A timeout handler that leaves the child running.
OnTimeout_NoKill(p) == p

\* code_executor.py:219-220: process.kill().
OnTimeout(p) == [p EXCEPT !.state = "killed"]

\* code_executor.py:221.
TimeoutResult ==
  [success |-> FALSE, value |-> NONE,
   error |-> [kind |-> "Code execution timeout", stderr |-> EMPTY]]

\* The names tempfile.mkdtemp makes up: of the scratch roots, with the
\* prefix of code_executor.py:19, and of the directories inside a root.
RootNames == {"quiz_exec_a", "quiz_exec_b"}
TempNames == {"tmp1", "tmp2"}

\* tempfile.mkdtemp (code_executor.py:19, 31): the directories it can make
\* in parent, those of a name that no directory of parent has.
Mkdtemp(parent, names, fs) ==
  {Append(parent, n) : n \in {m \in names : Append(parent, m) \notin fs}}

\* code_executor.py:19: the scratch root of the executor of this section.
ExecRoot == <<"quiz_exec_a">>

\* execute_code has been called with some code.
InitExec ==
  /\ NoChainRun
  /\ request = NoRequest
  /\ response = NoResponse
  /\ runs_started = 0
  /\ call = NoCall
  /\ returned = NoReturn
  /\ exec_pc = "called"
  /\ script \in Scripts
  /\ proc = NoProcess
  /\ exec_result = NoExecResult
  /\ scratch = {ExecRoot}
  /\ runs = NoRuns
  /\ solvers = NoSolvers

\* code_executor.py:29-47, 205-212: the execution directory is made, the
\* files and the wrapped script are written and the child is started, or one
\* of these steps (mkdtemp itself, or a later one) raises and the except
\* clause returns.
StartScript ==
  /\ exec_pc = "called"
  /\ \/ /\ exec_pc' = "running"
        /\ proc' = [NoProcess EXCEPT !.state = "running"]
        /\ \E d \in Mkdtemp(ExecRoot, TempNames, scratch) : scratch' = scratch \cup {d}
        /\ UNCHANGED exec_result
     \/ /\ exec_pc' = "returned"
        /\ exec_result' = [success |-> FALSE, value |-> NONE,
                           error |-> [kind |-> "OSError", stderr |-> EMPTY]]
        /\ \/ UNCHANGED scratch
           \/ \E d \in Mkdtemp(ExecRoot, TempNames, scratch) : scratch' = scratch \cup {d}
        /\ UNCHANGED proc
  /\ UNCHANGED <<pc, progVars, resVars, exit_reason, histVars, httpVars, fnVars, script,
                 runVars>>

\* The child runs the wrapped script to its end within the timeout.
ChildExits ==
  /\ exec_pc = "running"
  /\ proc.state = "running"
  /\ script.runtime < EXEC_TIMEOUT
  /\ proc' = wrapped_script(script)
  /\ UNCHANGED <<pc, progVars, resVars, exit_reason, histVars, httpVars, fnVars,
                 exec_pc, script, exec_result, fsVars>>

\* code_executor.py:215-238: communicate() returns and the output is read.
CommunicateReturns ==
  /\ exec_pc = "running"
  /\ proc.state = "exited"
  /\ exec_result' = run_script_result(proc)
  /\ exec_pc' = "returned"
  /\ UNCHANGED <<pc, progVars, resVars, exit_reason, histVars, httpVars, fnVars,
                 script, proc, fsVars>>

\* code_executor.py:219-221: the timeout expires before the child has ended.
TimeoutExpires ==
  /\ exec_pc = "running"
  /\ proc.state = "running"
  /\ script.runtime >= EXEC_TIMEOUT
  /\ proc' = OnTimeout(proc)
  /\ exec_result' = TimeoutResult
  /\ exec_pc' = "returned"
  /\ UNCHANGED <<pc, progVars, resVars, exit_reason, histVars, httpVars, fnVars, script,
                 fsVars>>

NextExec ==
  \/ StartScript
  \/ ChildExits
  \/ CommunicateReturns
  \/ TimeoutExpires

SpecExec == InitExec /\ [][NextExec]_vars

(***************************************************************************)
(* Chain runs of one process, each with its solver (main.py:61, 127-131,   *)
(* 277-279; advanced_quiz_solver.py:22-26, 788-792; code_executor.py:18-31)*)
(***************************************************************************)
\* The tasks handle_quiz has created, and how many attempts and executions
\* each makes at most.
RunIds == {1, 2}
MaxAttempts == 2
MaxExecutions == 2

\* A task that has not yet run its first statement.
NewRun ==
  [pc |-> "created", solver |-> 0, exec_dir |-> <<>>, dirs |-> <<>>,
   attempts |-> 0, fresh |-> TRUE]

\* A constructor that hands out one solver object for the whole process.
NewSolverIndex_Singleton(made) == 1

\* main.py:129, solver = QuizSolver(): every call constructs a new object.
NewSolverIndex(made) == Len(made) + 1

\* advanced_quiz_solver.py:22-26, code_executor.py:18-20: the state of a new
\* solver, its HTTP clients open, no attempt recorded, the scratch root of
\* its code executor at temp_dir.
NewSolver(temp_dir) ==
  [http_open |-> TRUE, attempt_history |-> 0, temp_dir |-> temp_dir]

\* The solver objects after one is constructed at index i.
Constructed(made, i, temp_dir) ==
  IF i = Len(made) + 1 THEN Append(made, NewSolver(temp_dir))
  ELSE [made EXCEPT ![i] = NewSolver(temp_dir)]

\* root is d or a directory above d.
IsUnder(d, root) ==
  Len(d) >= Len(root) /\ SubSeq(d, 1, Len(root)) = root

\* code_executor.py:332-334, shutil.rmtree(self.temp_dir).
Rmtree(root, fs) == {d \in fs : ~IsUnder(d, root)}

\* Two POST / requests have been accepted, and a task made for each.
InitRuns ==
  /\ NoChainRun
  /\ request = NoRequest
  /\ response = NoResponse
  /\ runs_started = 0
  /\ call = NoCall
  /\ returned = NoReturn
  /\ NoExecution
  /\ scratch = {}
  /\ solvers = NoSolvers
  /\ runs = [r \in RunIds |-> NewRun]

\* main.py:129: the task constructs its solver, which makes its executor's
\* scratch root.
RunConstructsSolver(r) ==
  /\ runs[r].pc = "created"
  /\ \E root \in Mkdtemp(<<>>, RootNames, scratch) :
       LET i == NewSolverIndex(solvers) IN
       /\ solvers' = Constructed(solvers, i, root)
       /\ scratch' = scratch \cup {root}
       /\ runs' = [runs EXCEPT ![r].pc = "open", ![r].solver = i]
  /\ UNCHANGED <<pc, progVars, resVars, exit_reason, histVars, httpVars, fnVars, execVars>>

\* advanced_quiz_solver.py:38-45: solve_quiz is called and counts the
\* attempt in the solver's attempt_history.
RunAttemptBegins(r) ==
  /\ runs[r].pc = "open"
  /\ runs[r].attempts < MaxAttempts
  /\ solvers' = [solvers EXCEPT ![runs[r].solver].attempt_history = @ + 1]
  /\ runs' = [runs EXCEPT ![r].pc = "solving", ![r].attempts = @ + 1]
  /\ UNCHANGED <<pc, progVars, resVars, exit_reason, histVars, httpVars, fnVars, execVars,
                 scratch>>

\* code_executor.py:31: execute_code makes the directory of one execution
\* inside the scratch root of the solver's executor.
RunExecutionBegins(r) ==
  /\ runs[r].pc = "solving"
  /\ Len(runs[r].dirs) < MaxExecutions
  /\ \E d \in Mkdtemp(solvers[runs[r].solver].temp_dir, TempNames, scratch) :
       /\ scratch' = scratch \cup {d}
       /\ runs' = [runs EXCEPT ![r].pc = "executing",
                               ![r].exec_dir = d,
                               ![r].dirs = Append(@, d),
                               ![r].fresh = @ /\ d \notin scratch]
  /\ UNCHANGED <<pc, progVars, resVars, exit_reason, histVars, httpVars, fnVars, execVars,
                 solvers>>

\* code_executor.py:47-53: execute_code returns; its directory stays.
RunExecutionEnds(r) ==
  /\ runs[r].pc = "executing"
  /\ runs' = [runs EXCEPT ![r].pc = "solving", ![r].exec_dir = <<>>]
  /\ UNCHANGED <<pc, progVars, resVars, exit_reason, histVars, httpVars, fnVars, execVars,
                 scratch, solvers>>

\* solve_quiz returns to the chain.
RunAttemptEnds(r) ==
  /\ runs[r].pc = "solving"
  /\ runs' = [runs EXCEPT ![r].pc = "open"]
  /\ UNCHANGED <<pc, progVars, resVars, exit_reason, histVars, httpVars, fnVars, execVars,
                 scratch, solvers>>

\* main.py:277-279, advanced_quiz_solver.py:788-792: the finally clause, run
\* at the end of the chain or when the task is cancelled at an await, closes
\* the solver's clients and removes its executor's scratch root.
RunCloses(r) ==
  /\ runs[r].pc \in {"open", "solving", "executing"}
  /\ solvers' = [solvers EXCEPT ![runs[r].solver].http_open = FALSE]
  /\ scratch' = Rmtree(solvers[runs[r].solver].temp_dir, scratch)
  /\ runs' = [runs EXCEPT ![r].pc = "closed", ![r].exec_dir = <<>>]
  /\ UNCHANGED <<pc, progVars, resVars, exit_reason, histVars, httpVars, fnVars, execVars>>

NextRuns ==
  \/ \E r \in RunIds : RunConstructsSolver(r)
  \/ \E r \in RunIds : RunAttemptBegins(r)
  \/ \E r \in RunIds : RunExecutionBegins(r)
  \/ \E r \in RunIds : RunExecutionEnds(r)
  \/ \E r \in RunIds : RunAttemptEnds(r)
  \/ \E r \in RunIds : RunCloses(r)

SpecRuns == InitRuns /\ [][NextRuns]_vars

(***************************************************************************)
(* The files of a question: the name the code-generation prompt shows for  *)
(* an entry (llm_client.py:220-229, 256-270) and the file the code runner  *)
(* writes for it (code_executor.py:119-201)                                *)
(***************************************************************************)
\* advanced_quiz_solver.py:454-467, 96: the type of a file_data entry.
FileTypes == {"csv", "json", "excel", "pdf", "image", "audio", "text"}

\* The last path segment of a file URL: names with a dot and one without.
DottedNames == {"report.pdf", "sales.csv", "notes.txt", "clip.mp3", "photo.png"}
PlainNames == {"export"}

\* The keys of file_data: the URL of a downloaded file
\* (advanced_quiz_solver.py:92) or image_<idx> for an image of the page
\* (advanced_quiz_solver.py:96), as the tests of the two filename functions
\* see them.
UrlKey(name) == [image_key |-> FALSE, index |-> EMPTY, has_slash |-> TRUE, last |-> name]
ImageKey(idx) == [image_key |-> TRUE, index |-> idx, has_slash |-> FALSE, last |-> EMPTY]
FileKeys == {UrlKey(n) : n \in DottedNames \cup PlainNames} \cup {ImageKey("0")}

\* '.' in potential_name.
HasDot(name) == name \in DottedNames

\* llm_client.py:263-270: the name for a key without a dotted last segment.
PromptDefault(type) ==
  IF type = "csv" THEN "data.csv"
  ELSE IF type = "json" THEN "data.json"
  ELSE IF type = "excel" THEN "data.xlsx"
  ELSE IF type = "pdf" THEN "data.txt"
  ELSE "data.dat"

\* llm_client.py:256-270, _get_filename_from_url.
get_filename_from_url(key, type) ==
  IF key.has_slash /\ HasDot(key.last) THEN key.last
  ELSE PromptDefault(type)

\* code_executor.py:191-201: the name for a key without a dotted last
\* segment.
RunnerDefault(type) ==
  IF type = "csv" THEN "data.csv"
  ELSE IF type = "json" THEN "data.json"
  ELSE IF type = "excel" THEN "data.xlsx"
  ELSE IF type = "pdf" THEN "data.pdf"
  ELSE IF type = "text" THEN "data.txt"
  ELSE IF type = "image" THEN "data.png"
  ELSE "data.dat"

\* code_executor.py:177-201, _extract_filename.
extract_filename(key, type) ==
  IF key.image_key THEN "image_" \o key.index \o ".png"
  ELSE IF key.has_slash /\ HasDot(key.last) THEN key.last
  ELSE RunnerDefault(type)

\* code_executor.py:156, filepath.replace('.pdf', '.txt').
PdfTextName(name) ==
  IF name = "report.pdf" THEN "report.txt"
  ELSE IF name = "data.pdf" THEN "data.txt"
  ELSE name

\* code_executor.py:121-175, one turn of the loop of _save_files_to_disk:
\* the file written for an entry, NONE when the write raised or when the
\* type has no branch.
WrittenFile(entry) ==
  IF entry.fails THEN NONE
  ELSE IF entry.type \in {"csv", "json", "excel", "image"}
    THEN extract_filename(entry.key, entry.type)
  ELSE IF entry.type = "pdf"
    THEN PdfTextName(extract_filename(entry.key, entry.type))
  ELSE NONE

\* The entries of file_data: page images are of type image; fails tells
\* that writing the entry raises (a full disk, a record pandas cannot take).
FileEntries ==
  {e \in [key : FileKeys, type : FileTypes, fails : BOOLEAN] :
     /\ e.key.image_key => e.type = "image"
     /\ e.fails => e.type \in {"csv", "json", "excel", "pdf", "image"}}

\* A question with one file: the prompt is built and the code it brought is
\* about to be executed.
InitFiles ==
  /\ NoChainRun
  /\ request = NoRequest
  /\ response = NoResponse
  /\ runs_started = 0
  /\ NoExecution
  /\ NoScratch
  /\ call \in {[fn |-> "execute_code", entry |-> e] : e \in FileEntries}
  /\ returned = NoReturn

\* llm_client.py:220-229 and code_executor.py:33-47: the prompt has shown
\* the entry under a name, _save_files_to_disk has run over the entry, and
\* execute_code goes on to write and launch the script.
FilesSaved ==
  /\ call.fn = "execute_code"
  /\ returned.fn = "none"
  /\ returned' = [fn |-> "save_files_to_disk",
                  shown |-> get_filename_from_url(call.entry.key, call.entry.type),
                  written |-> WrittenFile(call.entry),
                  script_written |-> FALSE]
  /\ UNCHANGED <<pc, progVars, resVars, exit_reason, histVars, httpVars, call, execVars, fsVars>>

\* code_executor.py:37-47: the script is written and launched.
ScriptLaunched ==
  /\ returned.fn = "save_files_to_disk"
  /\ ~returned.script_written
  /\ returned' = [returned EXCEPT !.script_written = TRUE]
  /\ UNCHANGED <<pc, progVars, resVars, exit_reason, histVars, httpVars, call, execVars, fsVars>>

NextFiles ==
  \/ FilesSaved
  \/ ScriptLaunched

SpecFiles == InitFiles /\ [][NextFiles]_vars

(***************************************************************************)
(* AdvancedQuizSolver.download_and_process_file                            *)
(* (advanced_quiz_solver.py:442-471)                                       *)
(***************************************************************************)
\* Content-Type headers a file server sends; the empty one stands for a
\* response without the header.
ContentTypes ==
  {"application/pdf", "application/json", "text/csv", "application/vnd.ms-excel",
   "image/png", "audio/mpeg", "text/plain", "application/octet-stream", EMPTY}

\* How a file URL ends.
UrlEndings == {".pdf", ".json", ".csv", ".xlsx", ".png", ".mp3", ".txt", EMPTY}

\* The words of the dispatch that occur in a content type.
KindWords(ct) ==
  IF ct = "application/pdf" THEN {"pdf"}
  ELSE IF ct = "application/json" THEN {"json"}
  ELSE IF ct = "text/csv" THEN {"csv"}
  ELSE IF ct = "application/vnd.ms-excel" THEN {"excel"}
  ELSE IF ct = "image/png" THEN {"image"}
  ELSE IF ct = "audio/mpeg" THEN {"audio"}
  ELSE {}

\* advanced_quiz_solver.py:454-467: the process_* function chosen, each
\* test the word in the content type or the ending of the URL.
Decoder(ct, ending) ==
  IF "pdf" \in KindWords(ct) \/ ending = ".pdf" THEN "pdf"
  ELSE IF "json" \in KindWords(ct) \/ ending = ".json" THEN "json"
  ELSE IF "csv" \in KindWords(ct) \/ ending = ".csv" THEN "csv"
  ELSE IF "excel" \in KindWords(ct) \/ ending \in {".xlsx", ".xls"} THEN "excel"
  ELSE IF "image" \in KindWords(ct)
          \/ ending \in {".png", ".jpg", ".jpeg", ".gif", ".bmp"} THEN "image"
  ELSE IF "audio" \in KindWords(ct)
          \/ ending \in {".wav", ".opus", ".mp3", ".ogg", ".m4a", ".flac", ".aac", ".wma"}
    THEN "audio"
  ELSE "text"

\* advanced_quiz_solver.py:445-467: None for a status other than 200, else
\* the decoder the dispatch chooses.
download_and_process_file(d) ==
  IF d.status # HTTP_OK THEN NONE ELSE Decoder(d.content_type, d.ending)

\* download_and_process_file has been called and the server has answered.
InitDownload ==
  /\ NoChainRun
  /\ request = NoRequest
  /\ response = NoResponse
  /\ runs_started = 0
  /\ NoExecution
  /\ NoScratch
  /\ call \in {[fn |-> "download_and_process_file", status |-> st,
                content_type |-> ct, ending |-> e] :
                 st \in {HTTP_OK, NotFoundStatus}, ct \in ContentTypes, e \in UrlEndings}
  /\ returned = NoReturn

\* The dispatch is made.
DownloadDispatched ==
  /\ call.fn = "download_and_process_file"
  /\ returned.fn = "none"
  /\ returned' = [fn |-> "download_and_process_file",
                  decoder |-> download_and_process_file(call)]
  /\ UNCHANGED <<pc, progVars, resVars, exit_reason, histVars, httpVars, call, execVars, fsVars>>

NextDownload ==
  \/ DownloadDispatched

SpecDownload == InitDownload /\ [][NextDownload]_vars

(***************************************************************************)
(* LLMClient.extract_answer (llm_client.py:309-346)                        *)
(***************************************************************************)
\* The content of a completion is a sequence of pieces: a JSON object, a
\* JSON array, a bracketed and a braced remark that are not JSON, numbers,
\* boolean words, other words, and blanks.
OBJ == "{\"a\":1}"
ARR == "[1,2]"
NOTE == "[Note]"
REMARK == "{see}"
Braced == {OBJ, REMARK}
Bracketed == {ARR, NOTE}
NumberPieces == {"42", "45.67", "-5", "42."}
WordPieces == {"true", "TRUE", "yes", "false", "no", "Result:", "items"}
AnswerPieces == Braced \cup Bracketed \cup NumberPieces \cup WordPieces \cup {Blank}

\* The longest content, in pieces.
MaxPieces == 3

RECURSIVE SeqsUpTo(_, _)
\* The non-empty sequences over S of length at most n.
SeqsUpTo(S, n) ==
  IF n = 0 THEN {}
  ELSE SeqsUpTo(S, n - 1) \cup [1..n -> S]

\* The values extract_answer returns.
Answer(type, v) == [type |-> type, v |-> v]
NoAnswer == Answer("NoneType", NONE)

\* json.loads of a piece: the value, NONE standing for JSONDecodeError.
JsonLoads(p) ==
  IF p = OBJ THEN "<object a: 1>"
  ELSE IF p = ARR THEN "<array 1, 2>"
  ELSE NONE

\* The index of the first piece of c from position i on that lies in S, and
\* of the last one; 0 when there is none.
RECURSIVE FirstIn(_, _, _)
FirstIn(c, S, i) ==
  IF i > Len(c) THEN 0
  ELSE IF c[i] \in S THEN i
  ELSE FirstIn(c, S, i + 1)

RECURSIVE LastIn(_, _, _)
LastIn(c, S, i) ==
  IF i < 1 THEN 0
  ELSE IF c[i] \in S THEN i
  ELSE LastIn(c, S, i - 1)

\* llm_client.py:320, re.search of the brace-or-bracket pattern with DOTALL:
\* the match starts at the first opening brace or bracket and, .* being
\* greedy, runs to the last closing one of the same sort; <<>> when the
\* content has neither.
JsonSpan(c) ==
  LET i == FirstIn(c, Braced \cup Bracketed, 1) IN
    IF i = 0 THEN <<>>
    ELSE IF c[i] \in Braced THEN SubSeq(c, i, LastIn(c, Braced, Len(c)))
    ELSE SubSeq(c, i, LastIn(c, Bracketed, Len(c)))

\* llm_client.py:322, json.loads(json_match.group()): text around or
\* between two values is not JSON.
SpanLoads(span) == IF Len(span) = 1 THEN JsonLoads(span[1]) ELSE NONE

\* llm_client.py:327-332: what the number pattern finds first in a piece
\* and what int() or float() makes of it; NoAnswer when the piece has no
\* digit.
NumberIn(p) ==
  IF p = "42" THEN Answer("int", "42")
  ELSE IF p = "45.67" THEN Answer("float", "45.67")
  ELSE IF p = "-5" THEN Answer("int", "-5")
  ELSE IF p = "42." THEN Answer("float", "42.0")
  ELSE IF p \in {OBJ, ARR} THEN Answer("int", "1")
  ELSE NoAnswer

\* The first number of the content, NoAnswer when it has no digit.
RECURSIVE FirstNumber(_)
FirstNumber(c) ==
  IF c = <<>> THEN NoAnswer
  ELSE IF NumberIn(Head(c)) # NoAnswer THEN NumberIn(Head(c))
  ELSE FirstNumber(Tail(c))

\* str.strip() and str.lower() on a content.
RECURSIVE StripBlanks(_)
StripBlanks(c) ==
  IF c = <<>> THEN c
  ELSE IF Head(c) = Blank THEN StripBlanks(Tail(c))
  ELSE IF c[Len(c)] = Blank THEN StripBlanks(SubSeq(c, 1, Len(c) - 1))
  ELSE c

LowerPiece(p) == IF p = "TRUE" THEN "true" ELSE p
Lower(c) == [i \in 1..Len(c) |-> LowerPiece(c[i])]

\* llm_client.py:309-346, extract_answer.
extract_answer(r) ==
  IF ~r.has_choices THEN NoAnswer
  ELSE
    LET c == r.content
        span == JsonSpan(c)
        low == StripBlanks(Lower(c))
    IN
    IF span # <<>> /\ SpanLoads(span) # NONE THEN Answer("json", SpanLoads(span))
    ELSE IF FirstNumber(c) # NoAnswer THEN FirstNumber(c)
    ELSE IF low \in {<<"true">>, <<"yes">>} THEN Answer("bool", "True")
    ELSE IF low \in {<<"false">>, <<"no">>} THEN Answer("bool", "False")
    ELSE Answer("str", StripBlanks(c))

\* extract_answer has been called with the response of the API, or with
\* None after a failed call.
InitAnswer ==
  /\ NoChainRun
  /\ request = NoRequest
  /\ response = NoResponse
  /\ runs_started = 0
  /\ NoExecution
  /\ NoScratch
  /\ call \in {[fn |-> "extract_answer", has_choices |-> TRUE, content |-> c] :
                 c \in SeqsUpTo(AnswerPieces, MaxPieces)}
             \cup {[fn |-> "extract_answer", has_choices |-> FALSE, content |-> <<>>]}
  /\ returned = NoReturn

ExtractAnswerReturns ==
  /\ call.fn = "extract_answer"
  /\ returned.fn = "none"
  /\ returned' = [fn |-> "extract_answer", value |-> extract_answer(call)]
  /\ UNCHANGED <<pc, progVars, resVars, exit_reason, histVars, httpVars, call, execVars, fsVars>>

NextAnswer ==
  \/ ExtractAnswerReturns

SpecAnswer == InitAnswer /\ [][NextAnswer]_vars

(***************************************************************************)
(* A csv entry of file_data written by the code runner                     *)
(* (code_executor.py:132-137) and read again by process_csv                *)
(* (advanced_quiz_solver.py:565-580)                                       *)
(***************************************************************************)
\* The column lists and cell values of the csv files of this section; NAN
\* is the missing value of pandas.  MaxRows is the longest table.
ColumnLists == {<<"a">>, <<"a", "b">>}
NAN == "nan"
Cells == {"1", "x", NAN}
MaxRows == 2

\* advanced_quiz_solver.py:568-576, the record process_csv makes of a table:
\* the column list and, under data, one dict per row.
CsvRecord(cols, rows) ==
  [type |-> "csv", columns |-> cols, data |-> rows]

\* The records of tables with the columns cols and n rows.
CsvRecords(cols, n) ==
  {CsvRecord(cols, rows) : rows \in [1..n -> [1..Len(cols) -> Cells]]}

\* code_executor.py:135, pd.DataFrame(data['data']): the columns of the
\* frame are the keys of the dicts, so that a frame made of no dict has no
\* column.
FrameColumns(rec) == IF rec.data = <<>> THEN <<>> ELSE rec.columns

\* code_executor.py:136, df.to_csv(filepath, index=False): a header line of
\* the frame's columns and one line per row, a missing value written as the
\* empty field.
to_csv(rec) ==
  [header |-> FrameColumns(rec),
   lines |-> [i \in 1..Len(rec.data) |->
                [j \in 1..Len(rec.data[i]) |->
                   IF rec.data[i][j] = NAN THEN EMPTY ELSE rec.data[i][j]]]]

\* advanced_quiz_solver.py:565-580, process_csv on the written file:
\* pd.read_csv raises EmptyDataError on a file without a column, which the
\* except clause turns into None; otherwise the record of the table read,
\* an empty field read as the missing value.
process_csv(file) ==
  IF file.header = <<>> THEN [type |-> NONE, columns |-> <<>>, data |-> <<>>]
  ELSE CsvRecord(file.header,
                 [i \in 1..Len(file.lines) |->
                    [j \in 1..Len(file.lines[i]) |->
                       IF file.lines[i][j] = EMPTY THEN NAN ELSE file.lines[i][j]]])

\* execute_code has been called with one csv entry.
InitCsv ==
  /\ NoChainRun
  /\ request = NoRequest
  /\ response = NoResponse
  /\ runs_started = 0
  /\ NoExecution
  /\ NoScratch
  /\ call \in {[fn |-> "save_files_to_disk", record |-> rec] :
                 rec \in UNION {CsvRecords(cols, n) : cols \in ColumnLists, n \in 0..MaxRows}}
  /\ returned = NoReturn

\* code_executor.py:132-137: the entry is written to its file.
CsvSaved ==
  /\ call.fn = "save_files_to_disk"
  /\ returned.fn = "none"
  /\ returned' = [fn |-> "to_csv", file |-> to_csv(call.record)]
  /\ UNCHANGED <<pc, progVars, resVars, exit_reason, histVars, httpVars, call, execVars, fsVars>>

\* advanced_quiz_solver.py:565-580: the written file is decoded again.
CsvDecoded ==
  /\ returned.fn = "to_csv"
  /\ returned' = [fn |-> "process_csv", record |-> process_csv(returned.file)]
  /\ UNCHANGED <<pc, progVars, resVars, exit_reason, histVars, httpVars, call, execVars, fsVars>>

NextCsv ==
  \/ CsvSaved
  \/ CsvDecoded

SpecCsv == InitCsv /\ [][NextCsv]_vars

(***************************************************************************)
(* The files of a question gathered by solve_quiz                          *)
(* (advanced_quiz_solver.py:61-96, 420-471)                                *)
(***************************************************************************)
\* The scheme and host of the quiz URL (advanced_quiz_solver.py:75).
BaseUrl == "https://host.example"

\* What extract_file_urls finds on a page: list(set(...)) of the href
\* values and of the absolute URLs in the text.  The same file may be there
\* in both forms.
RelativeUrls == {"/files/sales.csv"}
FileUrls ==
  RelativeUrls \cup {"https://host.example/files/sales.csv",
                     "https://host.example/files/extra.json",
                     "https://cdn.example/files/sales.csv"}

MaxFiles == 3
MaxImages == 1

\* advanced_quiz_solver.py:77-84: a URL that starts with "/" is put behind
\* the base URL, any other is kept.
AbsoluteUrl(u) == IF u \in RelativeUrls THEN BaseUrl \o u ELSE u

\* How one download goes: decoded, a status other than 200, an exception of
\* http_client.get, or content the process_* function cannot read.
Outcomes == {"ok", "status", "raises", "undecodable"}

RAISED == "<raised>"
RECORD == "<record>"

\* A download whose exception leaves the function.
Downloaded_Raises(o) ==
  IF o = "ok" THEN RECORD ELSE IF o = "raises" THEN RAISED ELSE NONE

\* advanced_quiz_solver.py:442-471: the record, or None on a status other
\* than 200, on any exception (the whole body is in one try statement) and
\* when the process_* function returned None.
Downloaded(o) == IF o = "ok" THEN RECORD ELSE NONE

\* file_data[key] = data
Put(file_data, key, data) ==
  [k \in DOMAIN file_data \cup {key} |-> IF k = key THEN data ELSE file_data[k]]

\* advanced_quiz_solver.py:91-92: `if data: file_data[file_url] = data`.
Keep(file_data, file_url, data) ==
  IF data # NONE THEN Put(file_data, file_url, data) ELSE file_data

\* advanced_quiz_solver.py:95-96: the key of the page image at index idx.
ImageKeyOf(idx) == IF idx = 0 THEN "image_0" ELSE "image_1"

\* The batches of discovered URLs: distinct strings, in any order.
Batches ==
  {b \in SeqsUpTo(FileUrls, MaxFiles) :
     \A i, j \in 1..Len(b) : i # j => b[i] # b[j]}

\* solve_quiz has fetched the page and found its file URLs and images.
InitBatch ==
  /\ NoChainRun
  /\ request = NoRequest
  /\ response = NoResponse
  /\ runs_started = 0
  /\ NoExecution
  /\ NoScratch
  /\ \E b \in Batches, n \in 0..MaxImages :
       \E o \in [1..Len(b) -> Outcomes] :
         call = [fn |-> "solve_quiz", file_urls |-> b, outcomes |-> o, images |-> n]
  /\ returned = [fn |-> "solve_quiz", downloads |-> 0, file_data |-> <<>>,
                 images_added |-> FALSE, aborted |-> FALSE]

\* advanced_quiz_solver.py:88-92: one turn of the download loop.
FileDownloaded ==
  /\ call.fn = "solve_quiz"
  /\ ~returned.aborted
  /\ returned.downloads < Len(call.file_urls)
  /\ LET i == returned.downloads + 1
         file_url == AbsoluteUrl(call.file_urls[i])
         data == Downloaded(call.outcomes[i])
     IN IF data = RAISED
          THEN returned' = [returned EXCEPT !.aborted = TRUE]
          ELSE returned' = [returned EXCEPT !.downloads = i,
                              !.file_data = Keep(@, file_url, data)]
  /\ UNCHANGED <<pc, progVars, resVars, exit_reason, histVars, httpVars, call, execVars, fsVars>>

\* advanced_quiz_solver.py:94-98: the page images are added after the files.
ImagesAdded ==
  /\ call.fn = "solve_quiz"
  /\ ~returned.aborted
  /\ returned.downloads = Len(call.file_urls)
  /\ ~returned.images_added
  /\ returned' = [returned EXCEPT !.images_added = TRUE,
                    !.file_data = [k \in DOMAIN @ \cup {ImageKeyOf(x) : x \in 0..(call.images - 1)} |->
                                     IF k \in DOMAIN @ THEN @[k] ELSE RECORD]]
  /\ UNCHANGED <<pc, progVars, resVars, exit_reason, histVars, httpVars, call, execVars, fsVars>>

NextBatch ==
  \/ FileDownloaded
  \/ ImagesAdded

SpecBatch == InitBatch /\ [][NextBatch]_vars

(***************************************************************************)
(* CodeExecutor._save_files_to_disk over a whole file_data                 *)
(* (code_executor.py:119-175)                                              *)
(***************************************************************************)
\* The number of entries of the file_data handed to execute_code.
MaxEntries == 2

\* Where a file URL's last segment hangs: two hosts serve files.
UrlDirs == {"https://host.example/files/", "https://cdn.example/files/"}

\* The keys of a file_data of several entries: file URLs, told apart by
\* what stands before the last segment too, and page images.
SaveKeys ==
  {[image_key |-> FALSE, index |-> EMPTY, has_slash |-> TRUE, last |-> n, dir |-> d] :
     n \in {"sales.csv", "export"}, d \in UrlDirs}
  \cup {[image_key |-> TRUE, index |-> i, has_slash |-> FALSE, last |-> EMPTY,
         dir |-> EMPTY] : i \in {"0", "1"}}

SaveEntries ==
  {e \in [key : SaveKeys, type : {"csv", "pdf", "image", "text"}, fails : BOOLEAN] :
     /\ e.key.image_key => e.type = "image"
     /\ e.fails => e.type # "text"}

\* A dict: no two entries under one key.
FileDatas ==
  {fd \in SeqsUpTo(SaveEntries, MaxEntries) :
     \A i, j \in 1..Len(fd) : i # j => fd[i].key # fd[j].key}

\* code_executor.py:121-175: the files in exec_dir after the loop, each
\* under the name its entry's turn wrote.
save_files_to_disk(file_data) ==
  {WrittenFile(file_data[i]) : i \in 1..Len(file_data)} \ {NONE}

\* execute_code has made its directory and is about to save the files.
InitSave ==
  /\ NoChainRun
  /\ request = NoRequest
  /\ response = NoResponse
  /\ runs_started = 0
  /\ NoExecution
  /\ NoScratch
  /\ call \in {[fn |-> "save_files_to_disk", file_data |-> fd] : fd \in FileDatas}
  /\ returned = NoReturn

\* code_executor.py:33-35, await self._save_files_to_disk(file_data, exec_dir):
\* the loop has no suspension point and runs in one step.
SaveFilesToDisk ==
  /\ call.fn = "save_files_to_disk"
  /\ returned.fn = "none"
  /\ returned' = [fn |-> "save_files_to_disk",
                  files |-> save_files_to_disk(call.file_data)]
  /\ UNCHANGED <<pc, progVars, resVars, exit_reason, histVars, httpVars, call, execVars, fsVars>>

NextSave ==
  \/ SaveFilesToDisk

SpecSave == InitSave /\ [][NextSave]_vars

(***************************************************************************)
(* The event loop of the service: the chain tasks and the POST / handler   *)
(* share one thread (main.py:30-79, 81-125, 127-282, 314-326)              *)
(***************************************************************************)
\* A task that waits for an awaited call, and one that handle_quiz has not
\* created yet.
TaskAt(at) == [pc |-> at, attempts |-> 0]

\* input() awaited on another thread, leaving the event loop free.
LoopBlocked_Never(tasks) == FALSE

\* main.py:102 and 111: get_manual_answer is a coroutine function but calls
\* the built-in input() directly; the call returns when the operator has
\* typed a line, and until then the thread of the event loop is inside it.
LoopBlocked(tasks) ==
  \E r \in DOMAIN tasks : tasks[r].pc \in {"input_answer", "input_url"}

\* One chain run is under way for an earlier request; another request has
\* arrived.
InitLoop ==
  /\ NoChainRun
  /\ request \in Requests
  /\ response = NoResponse
  /\ runs_started = 1
  /\ call = NoCall
  /\ returned = NoReturn
  /\ NoExecution
  /\ scratch = {}
  /\ solvers = NoSolvers
  /\ runs = [r \in RunIds |-> IF r = 1 THEN TaskAt("attempting") ELSE TaskAt("none")]

\* main.py:30-79: the event loop runs handle_quiz for the request; an
\* accepted request makes the second chain task (main.py:61).
LoopHandlesQuiz ==
  /\ ~LoopBlocked(runs)
  /\ response = NoResponse
  /\ \E coerces \in BOOLEAN :
       LET h == handle_quiz(request, coerces) IN
       /\ response' = [status |-> h.status, detail |-> h.detail, url |-> h.url]
       /\ IF h.started
            THEN /\ runs' = [runs EXCEPT ![2] = TaskAt("attempting")]
                 /\ runs_started' = runs_started + 1
            ELSE UNCHANGED <<runs, runs_started>>
  /\ UNCHANGED <<pc, progVars, resVars, exit_reason, histVars, request, fnVars, execVars,
                 scratch, solvers>>

\* main.py:159-213: the event loop resumes a task whose solve_quiz call has
\* returned.  The run ends (a correct answer without next URL, a timeout),
\* tries again after the retry delay, or, after the last attempt, enters
\* get_manual_answer and calls input().
LoopResumesAttempt(r) ==
  /\ ~LoopBlocked(runs)
  /\ runs[r].pc = "attempting"
  /\ \E next \in {"closed", "attempting", "input_answer"} :
       /\ next = "attempting" => ShouldRetry(runs[r].attempts + 1)
       /\ next = "input_answer" => ~ShouldRetry(runs[r].attempts + 1)
       /\ runs' = [runs EXCEPT ![r].pc = next, ![r].attempts = @ + 1]
  /\ UNCHANGED <<pc, progVars, resVars, exit_reason, histVars, httpVars, fnVars, execVars,
                 scratch, solvers>>

\* main.py:102-121: the operator types a line and input() returns: an empty
\* answer ends the prompt (the run skips or stops), an answer is followed by
\* the second input() for the url, and that by the manual submission.
OperatorTypes(r) ==
  /\ runs[r].pc \in {"input_answer", "input_url"}
  /\ \E next \in {"closed", "input_url", "submitting"} :
       /\ next = "input_url" => runs[r].pc = "input_answer"
       /\ next = "submitting" => runs[r].pc = "input_url"
       /\ next = "closed" => runs[r].pc = "input_answer"
       /\ runs' = [runs EXCEPT ![r].pc = next]
  /\ UNCHANGED <<pc, progVars, resVars, exit_reason, histVars, httpVars, fnVars, execVars,
                 scratch, solvers>>

\* main.py:220-264: the event loop resumes a task whose manual submission
\* has returned.
LoopResumesSubmit(r) ==
  /\ ~LoopBlocked(runs)
  /\ runs[r].pc = "submitting"
  /\ runs' = [runs EXCEPT ![r].pc = "closed"]
  /\ UNCHANGED <<pc, progVars, resVars, exit_reason, histVars, httpVars, fnVars, execVars,
                 scratch, solvers>>

NextLoop ==
  \/ LoopHandlesQuiz
  \/ \E r \in RunIds : LoopResumesAttempt(r)
  \/ \E r \in RunIds : OperatorTypes(r)
  \/ \E r \in RunIds : LoopResumesSubmit(r)

SpecLoop == InitLoop /\ [][NextLoop]_vars

(***************************************************************************)
(* Properties                                                              *)
(***************************************************************************)
\* The last element of a sequence of url values that is a non-empty url,
\* NULL when there is none.
RECURSIVE LastUrlIn(_)
LastUrlIn(log) ==
  IF log = <<>> THEN NULL
  ELSE IF log[Len(log)] # NULL /\ log[Len(log)] # EMPTY THEN log[Len(log)]
  ELSE LastUrlIn(SubSeq(log, 1, Len(log) - 1))

\* The Answers that are the content of a file of the working directory.
FileAnswers ==
  {"data:image/png;base64,...", "data:text/csv;base64,...", "<parsed out.json>",
   "data:application/vnd.openxmlformats-officedocument.spreadsheetml.sheet;base64,..."}

\* The conversion of a file by its extension, as the specification tells it.
ConversionByExtension ==
  [f \in CreatedFiles \cup {"data.csv"} |->
     IF f = "plot.png" THEN "data:image/png;base64,..."
     ELSE IF f = "out.json" THEN "<parsed out.json>"
     ELSE IF f = "table.xlsx"
       THEN "data:application/vnd.openxmlformats-officedocument.spreadsheetml.sheet;base64,..."
     ELSE "data:text/csv;base64,..."]

\* C1: while a solve_quiz call is in flight, it was called with
\* force_code_execution = false on attempt 1 and true on every later attempt.
C1_AttemptStrategy ==
  pc = "solving" => (force_code <=> (retry_count >= 2))

\* C2: a question that ended unsolved with a remembered next-URL naming
\* another question is followed by the next question at that URL: the run
\* neither stops nor goes on with another URL.
C2_UnsolvedSkipContinues ==
  (outcome = "unsolved" /\ skip_target # NULL) =>
     /\ pc \in {"after_inner", "loop"}
     /\ pc = "loop" => current_url = skip_target

\* C3: once the final retry has returned {correct: false, url: Q2} with Q2
\* another URL than the question's, and no manual answer was supplied,
\* current_url is Q2 and the question number is one more than the
\* question's, while the question is not solved.
C3_FinalRetrySkipAdvances ==
  (/\ outcome = "unsolved"
   /\ Len(url_log) = MAX_RETRIES_PER_QUESTION
   /\ ~result.correct
   /\ result.url # NULL /\ result.url # EMPTY /\ result.url # q_url
   /\ manual_submits = 0) =>
     /\ current_url = result.url
     /\ question_number = q_number + 1
     /\ ~question_solved

C3_Witness ==
  /\ outcome = "unsolved"
  /\ Len(url_log) = MAX_RETRIES_PER_QUESTION
  /\ ~result.correct
  /\ result.url = "q2" /\ q_url = "q1"
  /\ manual_submits = 0
  /\ prompts = 1
  /\ current_url = "q2" /\ question_number = q_number + 1

\* C4: after an automatic attempt's correct result no attempt is in flight
\* on that question any more; with a next-URL U, current_url is U, the
\* question number is one more and the run goes on; with none, current_url
\* is empty, the question number is unchanged and the run ends as completed.
C4_CorrectAdvances ==
  (outcome = "solved" /\ manual_submits = 0) =>
     /\ question_solved /\ result.correct
     /\ current_url = result.url
     /\ attempts_made = Len(url_log)
     /\ IF result.url # NULL /\ result.url # EMPTY
          THEN /\ question_number = q_number + 1
               /\ pc \in {"inner", "after_inner", "loop"}
               /\ exit_reason = "none"
          ELSE /\ question_number = q_number
               /\ pc \in {"after_inner", "loop", "closing", "done"}
               /\ exit_reason = "completed"

C4_Witness ==
  /\ outcome = "solved" /\ manual_submits = 0
  /\ Len(url_log) = 2 /\ url_log[1] = "q2" /\ url_log[2] = NULL
  /\ result.correct
  /\ pc = "done" /\ exit_reason = "completed"

\* C5: the remembered next-URL is the url of the most recent result of the
\* question that carried a non-empty url, and null if none did.
C5_RememberedNextUrl ==
  last_next_url = LastUrlIn(url_log)

C5_Witness ==
  /\ Len(url_log) = 2
  /\ url_log[1] = "q2" /\ url_log[2] = NULL
  /\ ~result.correct /\ ~result.submitted
  /\ last_next_url = "q2"

\* C6: the number of solve_quiz calls made on the current question never
\* exceeds MAX_RETRIES_PER_QUESTION.
C6_AttemptsBounded ==
  attempts_made <= MAX_RETRIES_PER_QUESTION

C6_Witness ==
  attempts_made = MAX_RETRIES_PER_QUESTION /\ pc = "prompt"

\* C7: a question that ended unsolved with no remembered next-URL naming
\* another question and no manual answer ends the run: the coroutine
\* returns (no exception), the chain state stays at that question and no
\* further question is started.
C7_NoNextUrlTerminates ==
  (outcome = "unsolved" /\ skip_target = NULL /\ manual_submits = 0) =>
     /\ pc \in {"closing", "done"}
     /\ exit_reason = "no_next_url"
     /\ current_url = q_url
     /\ question_number = q_number

C7_Witness ==
  /\ outcome = "unsolved" /\ skip_target = NULL /\ manual_submits = 0
  /\ last_next_url = q_url
  /\ prompts = 1
  /\ pc = "done"

C9_PromptOnlyWithoutNextUrl ==
  pc = "prompt" => OtherQuestion(last_next_url, current_url) = NULL

\* C9 (amended): the manual prompt is shown exactly when the last attempt
\* of the retry budget returned an incorrect result before the timeout,
\* whether or not a next-URL is remembered; while it is shown the chain
\* state is still that of the question.
C9_PromptOnExhaustion ==
  /\ (prompts = 1) <=>
       (/\ Len(url_log) = MAX_RETRIES_PER_QUESTION
        /\ ~result.correct
        /\ elapsed < QUESTION_TIMEOUT)
  /\ pc = "prompt" => (prompts = 1 /\ current_url = q_url /\ question_number = q_number)

C9_Witness ==
  /\ pc = "prompt"
  /\ last_next_url = "q2" /\ current_url = "q1"

\* C10: in one question at most one prompt is shown and at most one manual
\* answer is submitted; it is submitted with the url the operator typed
\* (the question's url when nothing was typed), and once it is submitted no
\* automatic attempt is started or in flight on that question.
C10_ManualSubmittedOnce ==
  /\ prompts <= 1
  /\ manual_submits <= 1
  /\ manual_submits = 1 =>
       /\ manual_answer # NULL
       /\ payload_url = IF typed_url = EMPTY THEN q_url ELSE typed_url
       /\ attempts_made = MAX_RETRIES_PER_QUESTION
       /\ Len(url_log) = MAX_RETRIES_PER_QUESTION
       /\ pc \notin {"solving", "sleeping", "prompt"}

C10_Witness ==
  /\ manual_submits = 1
  /\ typed_url = "q3" /\ q_url = "q1"
  /\ manual_result.correct /\ manual_result.url = "q2"
  /\ pc = "inner"

\* C11: the per-question timeout is looked at only when an attempt has
\* returned an incorrect result.  A correct result is honoured even when the
\* attempt ended past the timeout; after an incorrect result that ended at or
\* past the timeout the question is given up: no further attempt is started,
\* no retry delay is slept and no manual prompt is offered on it.
C11_TimeoutAfterAttempt ==
  (Len(url_log) >= 1 /\ Len(url_log) = attempts_made /\ elapsed >= QUESTION_TIMEOUT) =>
     IF result.correct
       THEN outcome = "solved" /\ question_solved
       ELSE /\ outcome = "unsolved"
            /\ prompts = 0 /\ manual_submits = 0
            /\ pc \in {"after_inner", "loop", "closing", "done"}

C11_Witness ==
  /\ Len(url_log) = 1 /\ attempts_made = 1
  /\ ~result.correct /\ result.submitted
  /\ elapsed >= QUESTION_TIMEOUT
  /\ outcome = "unsolved"
  /\ pc = "after_inner"

\* C12: POST / creates a chain run exactly when the body is an object whose
\* secret and email are the configured strings.  A request whose fields are
\* strings but whose secret or email differs is answered 403 and never gets
\* a run: nothing of a chain (no question, no fetch) ever happens for it.
\* An accepted request is answered "accepted" with its url and has exactly
\* one run, created before the response and not waited for.
C12_RunIffAuthorised ==
  LET authorised == /\ request.kind = "object"
                    /\ request.secret = SECRET
                    /\ request.email = EMAIL
      strings == /\ request.kind = "object"
                 /\ IsString(request.email) /\ IsString(request.secret)
                 /\ IsString(request.url)
  IN
  /\ runs_started \in {0, 1}
  /\ runs_started = 1 => authorised /\ response.status = HTTP_OK
  /\ runs_started = 0 =>
       /\ pc = "idle" /\ attempts_made = 0 /\ q_number = 0 /\ ~http_open
  /\ response.status # 0 =>
       /\ (strings /\ authorised) =>
            /\ runs_started = 1
            /\ response.detail = "accepted" /\ response.url = request.url
       /\ (strings /\ ~authorised) =>
            /\ response.status = HTTP_FORBIDDEN
            /\ runs_started = 0

\* The response is out while the run it created has not even begun.
C12_Witness ==
  /\ response.status = HTTP_OK /\ response.detail = "accepted"
  /\ response.url = "q1"
  /\ runs_started = 1
  /\ pc = "loop" /\ attempts_made = 0

\* C13: a POST / whose body is not JSON, is not a JSON object, or is an
\* object lacking a string email, secret or url is answered 400 and creates
\* no chain run.
C13_InvalidBodyRejected ==
  LET invalid == \/ request.kind \in {"not_json", "non_object"}
                 \/ ~IsString(request.email)
                 \/ ~IsString(request.secret)
                 \/ ~IsString(request.url)
  IN (response.status # 0 /\ invalid) =>
       /\ response.status = HTTP_BAD_REQUEST
       /\ runs_started = 0

\* C14: a submit_answer call always ends by returning a result.  For a
\* response whose status is not 200 the result is correct = false, url =
\* null whatever the body carried, and a reason made of the status code and
\* the raw body; for a transport error it is correct = false, url = null and
\* the error's text as reason.
C14_SubmitNeverRaises ==
  returned.fn = "submit_answer" =>
    LET post == call.post
        r == returned.value
    IN
    /\ post.raised =>
         /\ r.correct = FALSE /\ r.url = NULL
         /\ r.reason.kind = post.error
    /\ (~post.raised /\ post.status # HTTP_OK) =>
         /\ r.correct = FALSE /\ r.url = NULL
         /\ r.reason.kind = "HTTP"
         /\ r.reason.status = post.status
         /\ r.reason.body = post.body

\* A 404 whose JSON body says correct and names a next url.
C14_Witness ==
  /\ returned.fn = "submit_answer"
  /\ ~call.post.raised /\ call.post.status = NotFoundStatus
  /\ call.post.body.has_correct /\ call.post.body.correct
  /\ call.post.body.has_url /\ call.post.body.url = "q2"
  /\ returned.value.url = NULL /\ ~returned.value.correct

C17_AnyFenceVotes ==
  (/\ returned.fn = "get_solution_strategy"
   /\ call.reply.kind = "ok" /\ call.reply.closed /\ call.reply.code # <<>>
   /\ call.reply.tag \in PythonTags \cup {""}) =>
     /\ returned.value.strategy = "code_execution"
     /\ returned.value.code = call.reply.code

\* C17, amended: a fence tagged python or Python is by itself a vote; an
\* untagged fence votes only together with a declared code-execution
\* strategy or a keyword in the question.  With a vote and a first closed
\* block (tagged python or untagged) of non-empty code the answer is
\* code_execution with that code; without a vote it is direct.
C17_TaggedFenceVotes ==
  (/\ returned.fn = "get_solution_strategy"
   /\ call.reply.kind = "ok" /\ call.reply.closed /\ call.reply.code # <<>>
   /\ call.reply.tag \in PythonTags \cup {""}) =>
     LET vote == \/ call.reply.py_fence
                 \/ call.reply.declared
                 \/ \E i \in 1..Len(call.question) : call.question[i] \in ExecutionKeywords
     IN IF vote
          THEN /\ returned.value.strategy = "code_execution"
               /\ returned.value.code = call.reply.code
          ELSE returned.value.strategy = "direct"

\* A python block, no declaration, a question without keywords.
C17_Witness ==
  /\ returned.fn = "get_solution_strategy"
  /\ call.reply.kind = "ok" /\ call.reply.closed
  /\ call.reply.tag = "Python" /\ ~call.reply.declared
  /\ call.reply.code = <<"import pandas", NL, "answer = 1">>
  /\ call.question[1] = "what"
  /\ returned.value.strategy = "code_execution"
  /\ returned.value.code = call.reply.code

\* C18: when the timeout expires before the child has ended, the child is
\* killed and execute_code returns (false, null, "Code execution timeout");
\* a run whose child was still running at the timeout never returns success.
C18_TimeoutKills ==
  /\ (exec_pc = "returned" /\ proc.state \in {"running", "killed"}) =>
       /\ proc.state = "killed"
       /\ script.runtime >= EXEC_TIMEOUT
       /\ ~exec_result.success
       /\ exec_result.value = NONE
       /\ exec_result.error.kind = "Code execution timeout"
  /\ (exec_pc = "returned" /\ script.runtime >= EXEC_TIMEOUT) => ~exec_result.success
  /\ (exec_pc = "running" /\ script.runtime >= EXEC_TIMEOUT) => proc.state = "running"

\* A run that would have bound an answer had it been given the time.
C18_Witness ==
  /\ exec_pc = "returned"
  /\ script.runtime = RunSlow /\ script.answer = "42" /\ script.raises = "none"
  /\ proc.state = "killed"
  /\ exec_result = TimeoutResult

\* C19: when the user code raises an exception (or does not compile), the
\* child writes the error to stderr, exits with a non-zero status and
\* prints no marker block (none but what the user code printed itself), and
\* execute_code returns failure with an error
\* message made of "Execution failed: " and the captured stderr.
C19_ErrorReported ==
  (proc.state = "exited" /\ script.raises \in {"Exception", "SyntaxError"}) =>
    /\ proc.returncode # 0
    /\ proc.stderr # EMPTY
    /\ script.prints = "nothing" => ~proc.marker
    /\ exec_pc = "returned" =>
         /\ ~exec_result.success
         /\ exec_result.value = NONE
         /\ exec_result.error.kind = "Execution failed: "
         /\ exec_result.error.stderr = proc.stderr

\* The code raises after binding an answer and writing a file.
C19_Witness ==
  /\ exec_pc = "returned"
  /\ script.raises = "Exception" /\ script.answer = "42"
  /\ script.created_file = "plot.png"
  /\ proc.state = "exited" /\ proc.returncode = 1
  /\ exec_result.error.stderr = "EXECUTION_ERROR: ... Traceback ..."

C21_ArtifactIsNew ==
  (exec_pc = "returned" /\ proc.state = "exited" /\ script.raises = "none"
     /\ script.prints = "nothing"
     /\ script.answer = UNBOUND /\ script.result = UNBOUND) =>
    IF script.created_file = EMPTY
      THEN ~exec_result.success
      ELSE exec_result.success => exec_result.value = ConversionByExtension[script.created_file]

\* C22 as stated: on a successful run whose marker block names an output
\* file, the Answer is the conversion of that file by its extension; the
\* result value is the Answer only when no output file is named.
C22_FileBeforeResult ==
  (exec_pc = "returned" /\ exec_result.success /\ proc.marker) =>
     IF proc.output_file # EMPTY
       THEN exec_result.value = ConversionByExtension[proc.output_file]
       ELSE exec_result.value = proc.result

\* C22: on a successful run whose marker block holds a result, the Answer is
\* that result, whether or not an output file is named beside it; the Answer
\* is the conversion of the output file by its extension only when the block
\* holds no result.
C22_ResultBeforeFile ==
  (exec_pc = "returned" /\ exec_result.success /\ proc.marker) =>
     IF proc.has_result
       THEN exec_result.value = proc.result
       ELSE /\ proc.output_file # EMPTY
            /\ exec_result.value = ConversionByExtension[proc.output_file]

\* The marker block holds both keys: a falsy result and a json file.
C22_Witness ==
  /\ exec_pc = "returned" /\ exec_result.success
  /\ proc.marker /\ proc.has_result
  /\ proc.result = ZERO
  /\ proc.output_file = "out.json"
  /\ exec_result.value = ZERO

\* C23: execute_code always returns, and it returns success exactly when
\* the child ended with status 0 before the timeout and its marker block was
\* well-formed JSON that yields a non-null value; in every other case it
\* returns failure with the value None.
C23_SuccessIff ==
  exec_pc = "returned" =>
    LET block_value ==
          IF proc.has_result THEN proc.result
          ELSE IF proc.output_file \in DOMAIN ConversionByExtension
                  /\ proc.output_file # "empty.json"
            THEN ConversionByExtension[proc.output_file]
          ELSE NONE
        parsed == proc.marker /\ proc.well_formed /\ block_value # NONE
    IN
    /\ exec_result.success <=>
         (proc.state = "exited" /\ proc.returncode = 0 /\ parsed)
    /\ exec_result.success => exec_result.value = block_value
    /\ ~exec_result.success => exec_result.value = NONE

\* A child that ended with status 0 and a block that is not JSON: failure.
C23_Witness ==
  /\ exec_pc = "returned"
  /\ proc.state = "exited" /\ proc.returncode = 0
  /\ proc.marker /\ ~proc.well_formed
  /\ script.answer = "42"
  /\ ~exec_result.success /\ exec_result.value = NONE
  /\ exec_result.error.kind = "Could not extract result from execution"

\* C24: once execute_code has returned, whatever the outcome, the directory
\* made for that execution is deleted: the scratch root holds no directory.
C24_ScratchDeleted ==
  exec_pc = "returned" => \A d \in scratch : Len(d) = 1

\* The runs whose solver is constructed and not yet closed.
LiveRuns == {r \in RunIds : runs[r].pc \in {"open", "solving", "executing"}}

\* C25: concurrent chain runs share no mutable state.  Two runs never have
\* the same solver; a solver's attempt history counts the attempts of its
\* own run and no other; while a run is live its HTTP clients are open and
\* its scratch root and every execution directory it made exist, whatever
\* other runs have closed meanwhile; every execution directory did not
\* exist before mkdtemp made it, lies under the scratch root of its own
\* run's solver, and is the directory of no other execution of a live run.
C25_RunsIsolated ==
  /\ \A r1, r2 \in RunIds :
       (r1 # r2 /\ runs[r1].solver # 0 /\ runs[r2].solver # 0) =>
          runs[r1].solver # runs[r2].solver
  /\ \A r \in RunIds :
       runs[r].solver # 0 =>
          solvers[runs[r].solver].attempt_history = runs[r].attempts
  /\ \A r \in LiveRuns :
       LET s == solvers[runs[r].solver] IN
       /\ s.http_open
       /\ s.temp_dir \in scratch
       /\ \A i \in 1..Len(runs[r].dirs) :
            /\ runs[r].dirs[i] \in scratch
            /\ IsUnder(runs[r].dirs[i], s.temp_dir)
            /\ \A j \in 1..Len(runs[r].dirs) : i # j => runs[r].dirs[i] # runs[r].dirs[j]
       /\ \A q \in LiveRuns \ {r} :
            /\ solvers[runs[q].solver].temp_dir # s.temp_dir
            /\ \A i \in 1..Len(runs[r].dirs), j \in 1..Len(runs[q].dirs) :
                 runs[r].dirs[i] # runs[q].dirs[j]
  /\ \A r \in RunIds : runs[r].fresh

\* One run has closed its solver after two executions while the other is
\* in the middle of its own second execution, its directories still there.
C25_Witness ==
  /\ runs[1].pc = "closed" /\ Len(runs[1].dirs) = 2
  /\ runs[2].pc = "executing" /\ Len(runs[2].dirs) = 2
  /\ runs[2].exec_dir \in scratch
  /\ solvers[runs[2].solver].http_open
  /\ ~solvers[runs[1].solver].http_open

\* C26: when the script is launched, the entry of file_data, of whatever
\* type, text and audio included, has been written to a file of the
\* execution directory, unless writing it raised; and an entry whose
\* writing raised does not keep the script from being launched.
C26_EveryKindWritten ==
  /\ (returned.fn = "save_files_to_disk" /\ returned.script_written) =>
       (~call.entry.fails => returned.written # NONE)
  /\ (returned.fn = "save_files_to_disk" /\ call.entry.fails /\ ~returned.script_written) =>
       ENABLED ScriptLaunched

\* C27: the name the code-generation prompt shows for the entry is the name
\* of the file the code runner writes for it.
C27_ShownIsWritten ==
  (returned.fn = "save_files_to_disk" /\ returned.written # NONE) =>
     returned.shown = returned.written

\* C28: a downloaded file whose content type names one of the kinds pdf,
\* json, csv, excel, image, audio is decoded as that kind, whatever the
\* ending of its URL.
C28_ContentTypeDecides ==
  (returned.fn = "download_and_process_file" /\ call.status = HTTP_OK) =>
     \A k \in {"pdf", "json", "csv", "excel", "image", "audio"} :
        KindWords(call.content_type) = {k} => returned.decoder = k

\* C29: extract_answer goes by the priority JSON value, first number,
\* boolean word, trimmed text: a content that holds a parsable object or
\* array yields a parsed value; otherwise one that holds a digit yields its
\* first number, a float if it has a decimal point and an int if not;
\* otherwise one that is, trimmed and in lower case, true or yes (false or
\* no) yields the boolean; otherwise the trimmed content.
C29_AnswerPriority ==
  (returned.fn = "extract_answer" /\ call.has_choices) =>
    LET c == call.content
        parsable == {i \in 1..Len(c) : c[i] \in {OBJ, ARR}}
        numeric == {i \in 1..Len(c) : c[i] \in NumberPieces}
        first == CHOOSE i \in numeric : \A j \in numeric : i <= j
        trimmed == StripBlanks(c)
        word == IF Len(trimmed) = 1 THEN LowerPiece(trimmed[1]) ELSE EMPTY
    IN
    IF parsable # {}
      THEN /\ returned.value.type = "json"
           /\ \E i \in parsable : returned.value.v = JsonLoads(c[i])
    ELSE IF numeric # {}
      THEN /\ returned.value.type = (IF c[first] \in {"45.67", "42."} THEN "float" ELSE "int")
           /\ returned.value.v = (IF c[first] = "42." THEN "42.0" ELSE c[first])
    ELSE IF word \in {"true", "yes"}
      THEN returned.value.type = "bool" /\ returned.value.v = "True"
    ELSE IF word \in {"false", "no"}
      THEN returned.value.type = "bool" /\ returned.value.v = "False"
    ELSE returned.value.type = "str" /\ returned.value.v = trimmed

\* The names of a column list, as a set.
ColumnSet(cols) == {cols[i] : i \in 1..Len(cols)}

\* C30: a csv record written to disk by the code runner and decoded again
\* comes back as a record with the same set of column names and the same
\* number of rows, for any column list and any number of rows, zero
\* included.
C30_CsvRoundTrip ==
  returned.fn = "process_csv" =>
    /\ returned.record.type = "csv"
    /\ ColumnSet(returned.record.columns) = ColumnSet(call.record.columns)
    /\ Len(returned.record.data) = Len(call.record.data)

\* C31: the attempt history holds a record for the question being attempted
\* only: while a solve_quiz call is in flight its count for the question's
\* URL is the number of calls made in this iteration, starting from 1 on
\* every visit, and no record of an earlier question is left.
C31_HistoryDiscarded ==
  pc = "solving" =>
     /\ DOMAIN attempt_history = {q_url}
     /\ attempt_history[q_url] = attempts_made

\* C32: when execute_code has failed in the latest solve_quiz call, the
\* forced mode has returned {correct: false, reason: "Code execution
\* failed"} with no url and without submitting; the automatic mode has gone
\* on to solve_with_context and has submitted exactly when that gave a
\* non-null answer; and the run has not ended on the failed attempt unless
\* the question timed out, the prompt was reached or the task was cancelled.
C32_ExecutionFailureContained ==
  result.executed = "failed" =>
     /\ result.codegen =>
          /\ ~result.correct /\ ~result.submitted /\ result.url = NULL
          /\ result.reason = "Code execution failed"
     /\ result.selector =>
          /\ result.direct # "none"
          /\ result.submitted <=> result.direct = "ok"
          /\ ~result.submitted => result.reason = "Failed to solve quiz"
     /\ (~result.correct /\ pc \in {"closing", "done"}) =>
          \/ TimedOut(elapsed)
          \/ prompts > 0
          \/ exit_reason = "cancelled"

C32_Witness ==
  /\ result.executed = "failed"
  /\ result.selector
  /\ result.submitted
  /\ ~result.correct
  /\ pc = "prompt"

\* The positions of a batch whose download succeeded, and the file (not
\* image) keys of a material map.
Succeeded(c) == {i \in 1..Len(c.file_urls) : c.outcomes[i] = "ok"}
FileKeysOf(file_data) == {k \in DOMAIN file_data : k \in FileUrls \/ k \in {BaseUrl \o u : u \in RelativeUrls}}

\* C33 (as claimed): when the files and images of a question are gathered
\* and exactly one of the N downloads failed, the material map holds N-1
\* file records beside the page images.
C33_AllButOneKept ==
  (returned.fn = "solve_quiz" /\ returned.images_added
     /\ Cardinality(Succeeded(call)) = Len(call.file_urls) - 1) =>
       Cardinality(FileKeysOf(returned.file_data)) = Len(call.file_urls) - 1

\* C33 (amended): gathering is never aborted by a download; when it is done
\* the map holds one record for each absolute URL of which a download
\* succeeded, whatever happened to the other downloads, and one record for
\* each page image.
C33_SucceededKept ==
  returned.fn = "solve_quiz" =>
     /\ ~returned.aborted
     /\ returned.images_added =>
          /\ FileKeysOf(returned.file_data)
               = {IF call.file_urls[i] \in RelativeUrls
                    THEN BaseUrl \o call.file_urls[i] ELSE call.file_urls[i] :
                    i \in Succeeded(call)}
          /\ DOMAIN returned.file_data \ FileKeysOf(returned.file_data)
               = {ImageKeyOf(x) : x \in 0..(call.images - 1)}

C33_Witness ==
  /\ returned.fn = "solve_quiz"
  /\ returned.images_added
  /\ Len(call.file_urls) = 3
  /\ Cardinality(Succeeded(call)) = 2
  /\ \E i \in 1..3 : call.outcomes[i] = "raises"
  /\ Cardinality(FileKeysOf(returned.file_data)) = 2
  /\ call.images = 1

\* How often a collaborator occurs among the calls of one attempt.
CallCount(calls, name) == Cardinality({i \in 1..Len(calls) : calls[i] = name})
ModelCalls == {"get_solution_strategy", "generate_code_solution", "solve_with_context"}

\* C34: the latest automatic attempt fetched the page first and once, before
\* any call of the model; it submitted at most once, as its last call, and
\* only with an answer that is not null (from a successful execution or
\* from the direct solve); an attempt that made no submission returned a
\* non-correct result without url; and a solve_quiz call is in flight only
\* for the question of the current iteration, which began after the
\* previous question had ended.
C34_AttemptOrdered ==
  /\ result.calls # <<>> =>
       /\ result.calls[1] = "fetch_quiz_page"
       /\ CallCount(result.calls, "fetch_quiz_page") = 1
       /\ CallCount(result.calls, "submit_answer") <= 1
       /\ \A i \in 1..Len(result.calls) :
            result.calls[i] = "submit_answer" => i = Len(result.calls)
       /\ result.submitted <=> CallCount(result.calls, "submit_answer") = 1
       /\ result.submitted =>
            /\ \E i \in 2..Len(result.calls) : result.calls[i] \in ModelCalls
            /\ result.executed = "ok" \/ result.direct = "ok"
       /\ ~result.submitted =>
            /\ ~result.correct /\ result.url = NULL
            /\ result.reason \in {"Failed to fetch quiz page", "Failed to generate code",
                                  "Code execution failed", "Failed to solve quiz"}
  /\ pc = "solving" =>
       /\ current_url = q_url /\ question_number = q_number
       /\ outcome = "none" /\ ~question_solved

C34_Witness ==
  /\ q_number = 2
  /\ pc = "sleeping"
  /\ result.calls = <<"fetch_quiz_page", "generate_code_solution", "execute_code",
                      "submit_answer">>

\* C35: once a manual answer has been judged incorrect with a next-URL U in
\* the server's response, the run goes on to the next question iteration
\* and that iteration's URL is U: it neither stops nor takes another URL.
C35_ManualNextUrlAdvances ==
  (manual_submits = 1 /\ pc # "manual_submitting"
     /\ ~manual_result.correct /\ Truthy(manual_result.url)) =>
       /\ pc \in {"after_inner", "loop"}
       /\ pc = "loop" => current_url = manual_result.url

\* C36: the question number is the number the current iteration started
\* with (one more than the questions left before it) until the run leaves
\* the question, and leaving the question adds exactly one: from the start
\* of an iteration to the start of the next it never grows by two.
C36_NumberedOncePerQuestion ==
  /\ question_number >= q_number
  /\ question_number <= q_number + 1

\* C40: the remembered next-URL is null when a question iteration starts and
\* afterwards holds only a URL that a result of an attempt of this iteration
\* carried; a skip decided in the iteration names such a URL.
C40_NextUrlOfThisQuestion ==
  /\ (pc = "inner" /\ attempts_made = 0) => last_next_url = NULL
  /\ (pc \in {"inner", "solving", "sleeping", "prompt", "manual_submitting",
              "after_inner"} /\ last_next_url # NULL) =>
       \E i \in 1..Len(url_log) : url_log[i] = last_next_url
  /\ skip_target # NULL => \E i \in 1..Len(url_log) : url_log[i] = skip_target

C40_Witness ==
  /\ q_number = 2
  /\ pc = "inner"
  /\ attempts_made = 0
  /\ last_next_url = NULL
  /\ result.url = "q2"

Materialized(fd) == {i \in 1..Len(fd) : WrittenFile(fd[i]) # NONE}

\* C39: when _save_files_to_disk has run over a file_data, whose keys are
\* distinct, the directory holds as many input files as entries were
\* written: no entry's file took the place of another's.
C39_NoFileOverwritten ==
  returned.fn = "save_files_to_disk" =>
     Cardinality(returned.files) = Cardinality(Materialized(call.file_data))

\* C37: while a chain run waits at the manual prompt, another run whose
\* awaited call has returned can take its next step, and a request that has
\* arrived can be handled.
C37_PromptDoesNotStall ==
  \A r \in RunIds :
    runs[r].pc \in {"input_answer", "input_url"} =>
      /\ \A o \in RunIds \ {r} :
           runs[o].pc = "attempting" => ENABLED LoopResumesAttempt(o)
      /\ response = NoResponse => ENABLED LoopHandlesQuiz

=============================================================================
